---- MODULE Spec2Model ----
(***************************************************************************)
(* MMM-ImmichTileSlideShow: the node helper (node_helper.js), the Immich   *)
(* adapter (immichApi.js) and the front end's data handler                 *)
(* (MMM-ImmichTileSlideShow.js) as one state machine.                      *)
(*                                                                         *)
(* JavaScript is single threaded: the code between two awaited network     *)
(* calls runs without interleaving, so one action is one such segment, and *)
(* every awaited request is a position (pc) of the call that issued it.    *)
(***************************************************************************)
EXTENDS Integers, Sequences, FiniteSets, TLC

\* ------------------------------------------------------------------ bounds
\* number of REGISTER events (load cycles) / of direct init calls in a run
MaxCalls == 2
\* the tiles of the grid
NTiles == 2
\* the media selections recorded after a data event
MaxPicks == 6

Calls == 1..MaxCalls

\* ------------------------------------------------------- sequence helpers
Range(s) == {s[i] : i \in DOMAIN s}

Reverse(s) == [i \in 1..Len(s) |-> s[Len(s) + 1 - i]]

RECURSIVE Concat(_)
\* flatten a sequence of sequences, in order
Concat(ss) == IF ss = <<>> THEN <<>> ELSE Head(ss) \o Concat(Tail(ss))

NoDup(s) == \A i, j \in DOMAIN s : i # j => s[i] # s[j]

\* ------------------------------------------------------ immichApi: constants
IMMICH_PROXY_URL == "/immichtilesslideshow/"
IMMICH_VIDEO_PROXY_URL == "/immichtilesslideshow-video/"

\* apiUrls: the table of API levels. A level without previousVersion is the
\* oldest; only v1_133 has a randomSearch path.
apiUrls ==
  [v1_94 |->
     [albums |-> "/album", albumInfo |-> "/album/{id}",
      memoryLane |-> "/asset/memory-lane", assetInfo |-> "/asset/{id}",
      assetDownload |-> "/asset/file/{id}?isWeb=true",
      serverInfoUrl |-> "/server-info/version", search |-> "NOT SUPPORTED",
      videoStream |-> "/asset/file/{id}?isWeb=true"],
   v1_106 |->
     [previousVersion |-> "v1_94",
      albums |-> "/albums", albumInfo |-> "/albums/{id}",
      memoryLane |-> "/assets/memory-lane", assetInfo |-> "/assets/{id}",
      assetDownload |-> "/assets/{id}/thumbnail?size=preview",
      serverInfoUrl |-> "/server-info/version", search |-> "NOT SUPPORTED",
      videoStream |-> "/assets/{id}/video"],
   v1_118 |->
     [previousVersion |-> "v1_106",
      albums |-> "/albums", albumInfo |-> "/albums/{id}",
      memoryLane |-> "/assets/memory-lane", assetInfo |-> "/assets/{id}",
      assetDownload |-> "/assets/{id}/thumbnail?size=preview",
      serverInfoUrl |-> "/server/version", search |-> "/search/smart",
      videoStream |-> "/assets/{id}/video"],
   v1_133 |->
     [previousVersion |-> "v1_118",
      albums |-> "/albums", albumInfo |-> "/albums/{id}",
      memoryLane |-> "/memories", assetInfo |-> "/assets/{id}",
      assetDownload |-> "/assets/{id}/thumbnail?size=preview",
      serverInfoUrl |-> "/server/version", search |-> "/search/smart",
      randomSearch |-> "/search/random",
      videoStream |-> "/assets/{id}/video"]]

Levels == DOMAIN apiUrls

\* !!this.apiUrls[level].previousVersion
HasPrevious(level) == "previousVersion" \in DOMAIN apiUrls[level]

\* the newest level: the initial value of immichApi.apiLevel
NewestLevel == "v1_133"

RECURSIVE ChainFrom(_)
\* the levels from `level` down to the oldest, following previousVersion
ChainFrom(level) ==
  IF HasPrevious(level)
    THEN <<level>> \o ChainFrom(apiUrls[level].previousVersion)
    ELSE <<level>>

\* axios validateStatus: the statuses for which the request promise resolves
\* (status 0 stands for no response at all: network failure or timeout)
ValidateStatus(status) == status >= 200 /\ status < 499

\* --------------------------------------------------------- strings
\* A string the code looks into (file names, type hints, timestamps, the
\* extension lists) is a sequence of one-character strings; "" is <<>>.
\* An opaque string (ids, urls, paths) is a TLA+ string.

\* null / undefined
Null == <<"null">>

\* JavaScript's falsy test on a string-or-null value
Falsy(v) == v = Null \/ v = <<>>

\* a || b
Or(a, b) == IF Falsy(a) THEN b ELSE a

UpperToLower ==
  [A |-> "a", B |-> "b", C |-> "c", D |-> "d", E |-> "e", F |-> "f",
   G |-> "g", H |-> "h", I |-> "i", J |-> "j", K |-> "k", L |-> "l",
   M |-> "m", N |-> "n", O |-> "o", P |-> "p", Q |-> "q", R |-> "r",
   S |-> "s", T |-> "t", U |-> "u", V |-> "v", W |-> "w", X |-> "x",
   Y |-> "y", Z |-> "z"]

\* String.prototype.toLowerCase
toLowerCase(s) ==
  [i \in 1..Len(s) |-> IF s[i] \in DOMAIN UpperToLower THEN UpperToLower[s[i]] ELSE s[i]]

\* the characters in the order of their character codes
CodeOrder ==
  <<" ", ",", "-", ".", "/", "0", "1", "2", "3", "4", "5", "6", "7", "8", "9", ":",
    "A", "B", "C", "D", "E", "F", "G", "H", "I", "J", "K", "L", "M", "N", "O", "P",
    "Q", "R", "S", "T", "U", "V", "W", "X", "Y", "Z", "_",
    "a", "b", "c", "d", "e", "f", "g", "h", "i", "j", "k", "l", "m", "n", "o", "p",
    "q", "r", "s", "t", "u", "v", "w", "x", "y", "z">>

CharCode(c) == CHOOSE i \in DOMAIN CodeOrder : CodeOrder[i] = c

RECURSIVE StrLess(_, _)
\* a < b on strings: lexicographic by character code
StrLess(a, b) ==
  IF b = <<>> THEN FALSE
  ELSE IF a = <<>> THEN TRUE
  ELSE IF a[1] = b[1] THEN StrLess(Tail(a), Tail(b))
  ELSE CharCode(a[1]) < CharCode(b[1])

\* String.prototype.includes
includes(s, sub) ==
  \E i \in 0..(Len(s) - Len(sub)) : SubSeq(s, i + 1, i + Len(sub)) = sub

\* index of the last occurrence of character c in s, 0 when there is none
LastIndexOf(s, c) ==
  IF c \in Range(s) THEN CHOOSE i \in DOMAIN s : s[i] = c /\ \A j \in DOMAIN s : s[j] = c => j <= i
  ELSE 0

RECURSIVE split(_, _)
\* String.prototype.split on a one-character separator
split(s, sep) ==
  IF sep \notin Range(s) THEN <<s>>
  ELSE LET k == CHOOSE i \in DOMAIN s : s[i] = sep /\ \A j \in 1..(i - 1) : s[j] # sep
       IN <<SubSeq(s, 1, k - 1)>> \o split(SubSeq(s, k + 1, Len(s)), sep)

RECURSIVE trim(_)
\* String.prototype.trim (blanks only)
trim(s) ==
  IF s = <<>> THEN s
  ELSE IF Head(s) = " " THEN trim(Tail(s))
  ELSE IF s[Len(s)] = " " THEN trim(SubSeq(s, 1, Len(s) - 1))
  ELSE s

\* new Set(list.toLowerCase().split(',').map(trim).filter(Boolean))
ExtensionSet(list) ==
  {trim(e) : e \in Range(split(toLowerCase(list), ","))} \ {<<>>}

\* ------------------------------------------------- node_helper: pipeline
\* hasValidExt(filename, validSet)
hasValidExt(filename, validSet) ==
  IF Falsy(filename) \/ "." \notin Range(filename) THEN FALSE
  ELSE LET parts == split(filename, ".")
       IN toLowerCase(parts[Len(parts)]) \in validSet

\* img.originalPath || img.originalFileName || ''
AssetName(img) == Or(Or(img.originalPath, img.originalFileName), <<>>)

\* (img.type || '').toString().toLowerCase()
AssetType(img) == toLowerCase(Or(img.type, <<>>))

VIDEO == <<"v", "i", "d", "e", "o">>
IMAGE == <<"i", "m", "a", "g", "e">>

\* a variant that does not look at enableVideos
KeepAssetAnyKind(img, enableVideos, validImageSet, validVideoSet) ==
  LET name == AssetName(img)
      type == AssetType(img)
  IN \/ hasValidExt(name, validImageSet) \/ includes(type, IMAGE)
     \/ hasValidExt(name, validVideoSet) \/ includes(type, VIDEO)

\* the predicate of images.filter(...) in _loadFromImmichImpl
KeepAsset(img, enableVideos, validImageSet, validVideoSet) ==
  LET name == AssetName(img)
      type == AssetType(img)
      okImage == hasValidExt(name, validImageSet) \/ includes(type, IMAGE)
      okVideo == enableVideos /\ (hasValidExt(name, validVideoSet) \/ includes(type, VIDEO))
  IN okImage \/ okVideo

\* isVideo as computed by the map step of _loadFromImmichImpl
IsVideo(img, validVideoSet) ==
  LET type == AssetType(img)
  IN includes(type, VIDEO) \/ (type = <<>> /\ hasValidExt(AssetName(img), validVideoSet))

getImageLink(imageId) == IMMICH_PROXY_URL \o imageId

\* a variant that sends videos through the image route
getVideoLinkOnImageRoute(imageId) == IMMICH_PROXY_URL \o imageId

getVideoLink(imageId) == IMMICH_VIDEO_PROXY_URL \o imageId

\* (img.originalFileName || '').replace(/\.[^.]+$/, '')
StripExtension(name) ==
  LET k == LastIndexOf(name, ".")
  IN IF k > 0 /\ k < Len(name) THEN SubSeq(name, 1, k - 1) ELSE name

\* toTileImage(img, immichApi, isVideo). An image record has no posterSrc
\* field, written here as posterSrc = ""; albumName is an opaque string and
\* "" stands for img.albumName || null being null.
toTileImage(img, isVideo) ==
  LET title == StripExtension(Or(img.originalFileName, <<>>))
      takenAt == Or(Or(Or(img.dateTimeOriginal, img.fileCreatedAt), img.fileModifiedAt), Null)
      albumName == img.albumName
  IN IF isVideo
       THEN [kind |-> "video", src |-> getVideoLink(img.id), posterSrc |-> getImageLink(img.id),
             title |-> title, takenAt |-> takenAt, albumName |-> albumName]
       ELSE [kind |-> "image", src |-> getImageLink(img.id), posterSrc |-> "",
             title |-> title, takenAt |-> takenAt, albumName |-> albumName]

\* (a[key] || '').toString()
SortKey(tile, key) == Or(tile[key], <<>>)

RECURSIVE InsertSorted(_, _, _)
\* insert t after every element that does not compare greater than it
InsertSorted(sorted, t, key) ==
  IF sorted = <<>> THEN <<t>>
  ELSE IF StrLess(SortKey(t, key), SortKey(Head(sorted), key)) THEN <<t>> \o sorted
  ELSE <<Head(sorted)>> \o InsertSorted(Tail(sorted), t, key)

RECURSIVE sortByKey(_, _)
\* list.sort(comparator on key): Array.prototype.sort is stable
sortByKey(list, key) ==
  IF list = <<>> THEN <<>>
  ELSE InsertSorted(sortByKey(SubSeq(list, 1, Len(list) - 1), key), list[Len(list)], key)

Swap(list, i, j) == [list EXCEPT ![i] = list[j], ![j] = list[i]]

RECURSIVE shuffleFrom(_, _, _)
\* the Fisher-Yates loop from position i down (1-based); rnd[i] in 1..i is
\* Math.floor(Math.random() * (i + 1)) for that iteration
shuffleFrom(list, i, rnd) ==
  IF i <= 1 THEN list ELSE shuffleFrom(Swap(list, i, rnd[i]), i - 1, rnd)

shuffle(list, rnd) == shuffleFrom(list, Len(list), rnd)

\* the draws one shuffle of a list of n elements can make
RandomDraws(n) == {rnd \in [1..n -> 1..n] : \A i \in 1..n : rnd[i] <= i}

\* a variant in which only the key taken orders by takenAt
SortStepTakenOnly(tiles, sortImagesBy, rnd) ==
  CASE sortImagesBy = "name" -> sortByKey(tiles, "title")
    [] sortImagesBy = "taken" -> sortByKey(tiles, "takenAt")
    [] sortImagesBy = "random" -> shuffle(tiles, rnd)
    [] OTHER -> tiles

\* the switch on cfg.sortImagesBy
SortStep(tiles, sortImagesBy, rnd) ==
  CASE sortImagesBy = "name" -> sortByKey(tiles, "title")
    [] sortImagesBy \in {"created", "modified", "taken"} -> sortByKey(tiles, "takenAt")
    [] sortImagesBy = "random" -> shuffle(tiles, rnd)
    [] OTHER -> tiles

\* a variant that reverses only behind a sort by key
SortTilesKeyedReverse(tiles, sortImagesBy, sortImagesDescending, rnd) ==
  IF sortImagesDescending /\ sortImagesBy \in {"name", "created", "modified", "taken"}
    THEN Reverse(SortStep(tiles, sortImagesBy, rnd))
    ELSE SortStep(tiles, sortImagesBy, rnd)

\* the switch on cfg.sortImagesBy followed by the optional reverse
SortTiles(tiles, sortImagesBy, sortImagesDescending, rnd) ==
  IF sortImagesDescending
    THEN Reverse(SortStep(tiles, sortImagesBy, rnd))
    ELSE SortStep(tiles, sortImagesBy, rnd)

\* ------------------------------------------------------- configuration
\* query: null; a query object is a record, and the record without fields
\* stands for null as for {}
NoQuery == <<>>

\* the defaults of normalizeImmichConfig
ImmichDefaults ==
  [mode |-> "memory", timeout |-> 6000, numDaysToInclude |-> 7,
   albumId |-> <<>>, albumName |-> <<>>, query |-> NoQuery, querySize |-> 100,
   anniversaryDatesBack |-> 3, anniversaryDatesForward |-> 3,
   anniversaryStartYear |-> 2020, anniversaryEndYear |-> 2025,
   sortImagesBy |-> "none", sortImagesDescending |-> FALSE]

\* { ...defaults, ...active }
Spread(defaults, active) ==
  [k \in DOMAIN defaults \cup DOMAIN active |->
     IF k \in DOMAIN active THEN active[k] ELSE defaults[k]]

\* normalizeImmichConfig(moduleConfig): albumId / albumName are lists of
\* opaque strings, <<>> standing for null
normalizeImmichConfig(moduleConfig) ==
  LET idx == moduleConfig.activeImmichConfigIndex
      list == moduleConfig.immichConfigs
      active == IF idx + 1 \in DOMAIN list THEN list[idx + 1] ELSE <<>>
  IN Spread(ImmichDefaults, active)

\* Array.isArray(config.immichConfigs) && config.immichConfigs.length > 0
HasImmich(moduleConfig) == Len(moduleConfig.immichConfigs) > 0

JPG_PNG == <<"j", "p", "g", ",", " ", "P", "N", "G">>
MP4_MOV == <<"m", "p", "4", ",", "m", "o", "v">>

\* a module configuration as the front end sends it with IMMICH_TILES_REGISTER
ModuleConfig(immich, rows, cols, videos) ==
  [immichConfigs |-> immich, activeImmichConfigIndex |-> 0,
   tileRows |-> rows, tileCols |-> cols, enableVideos |-> videos,
   validImageFileExtensions |-> JPG_PNG, validVideoFileExtensions |-> MP4_MOV]

Server(name) == [url |-> "http://" \o name, apiKey |-> "key-" \o name]

\* the configurations a REGISTER event carries when load cycles overlap:
\* no Immich configuration, memory mode, search mode
RegisterConfigs ==
  { ModuleConfig(<<>>, 1, 2, TRUE),
    ModuleConfig(<<Spread(Server("a"), [numDaysToInclude |-> 1])>>, 2, 3, TRUE),
    ModuleConfig(<<Spread(Server("b"), [mode |-> "search", sortImagesBy |-> "name",
                                         timeout |-> 9000])>>, 0, 0, FALSE) }

\* the configurations a REGISTER event carries when the modes are explored
ModeConfigs ==
  { ModuleConfig(<<>>, 1, 2, TRUE),
    ModuleConfig(<<>>, 0, 4, FALSE),
    ModuleConfig(<<>>, 3, 2, TRUE),
    ModuleConfig(<<Spread(Server("a"), [numDaysToInclude |-> 2])>>, 2, 3, TRUE),
    ModuleConfig(<<Spread(Server("b"), [mode |-> "album", albumId |-> <<"al1", "al2">>,
                                         sortImagesBy |-> "name", timeout |-> 9000])>>, 2, 2, FALSE),
    ModuleConfig(<<Spread(Server("a"), [mode |-> "album", albumName |-> <<"Trip", "Nope", "Home">>,
                                         sortImagesBy |-> "name"])>>, 0, 0, TRUE),
    ModuleConfig(<<Spread(Server("a"), [mode |-> "album", albumName |-> <<"Nope">>])>>, 0, 0, TRUE),
    ModuleConfig(<<Spread(Server("a"), [mode |-> "album"])>>, 2, 3, TRUE),
    ModuleConfig(<<Spread(Server("b"), [mode |-> "search", query |-> [query |-> "q", size |-> 7],
                                         querySize |-> 5,
                                         sortImagesBy |-> "taken"])>>, 2, 3, FALSE),
    ModuleConfig(<<Spread(Server("b"), [mode |-> "search", sortImagesBy |-> "created"])>>, 2, 3, FALSE),
    ModuleConfig(<<Spread(Server("b"), [mode |-> "search", sortImagesBy |-> "modified"])>>, 2, 3, TRUE),
    ModuleConfig(<<Spread(Server("b"), [mode |-> "search", sortImagesBy |-> "size"])>>, 2, 3, TRUE),
    ModuleConfig(<<Spread(Server("a"), [mode |-> "random", sortImagesBy |-> "random",
                                         query |-> [size |-> 7], querySize |-> 5,
                                         sortImagesDescending |-> TRUE])>>, 2, 3, TRUE),
    ModuleConfig(<<Spread(Server("b"), [mode |-> "anniversary", anniversaryStartYear |-> 2020,
                                         query |-> [size |-> 7], querySize |-> 5,
                                         anniversaryEndYear |-> 2021,
                                         sortImagesDescending |-> TRUE])>>, 2, 3, TRUE) }

\* this.config before the first REGISTER (start() sets it to null)
NoConfig == ModuleConfig(<<>>, 0, 0, FALSE)

\* ------------------------------------------------------ the remote service
\* a raw asset; a field the remote service left out is <<>> (or "" for the
\* opaque albumName)
Asset(id, fileName, type, exif, created) ==
  [id |-> id, originalFileName |-> fileName, originalPath |-> <<>>, type |-> type,
   dateTimeOriginal |-> exif, fileCreatedAt |-> created, fileModifiedAt |-> <<>>,
   albumName |-> ""]

\* the element images.concat(obj) adds for a body that is a bare object
BareObject == Asset("", <<>>, <<>>, <<>>, <<>>)

Photo(id) == Asset(id, <<"b", ".", "J", "P", "G">>, <<"I", "M", "A", "G", "E">>, <<>>, <<"2", "0", "2", "1">>)
Clip(id) == Asset(id, <<"a", ".", "m", "o", "v">>, <<"V", "I", "D", "E", "O">>, <<>>, <<"2", "0", "2", "0">>)
NoExt(id) == Asset(id, <<"c">>, <<>>, <<>>, <<"2", "0", "2", "2">>)
Scan(id) == Asset(id, <<"d", ".", "p", "n", "g">>, <<>>, <<"2", "0", "1", "9">>, <<>>)
Typed(id) == Asset(id, <<"e">>, <<"I", "M", "A", "G", "E">>, <<>>, <<>>)
\* a name with an image extension under a video type hint
Still(id) == Asset(id, <<"f", ".", "j", "p", "g">>, <<"V", "I", "D", "E", "O">>, <<>>, <<>>)

\* the well-formed 200 bodies of the remote service, by request
\* GET memoryLane for the day i days before today: a list of memory groups
MemoryLaneBody(i) ==
  IF i = 0
    THEN <<[assets |-> <<Photo("m0a")>>], [assets |-> <<Clip("m0b"), NoExt("m0c")>>]>>
    ELSE <<[assets |-> <<Scan("m" \o ToString(i))>>]>>

\* GET albums: the album list
AlbumsBody ==
  <<[albumName |-> "Trip", id |-> "al1"], [albumName |-> "Home", id |-> "al2"],
    [albumName |-> "Trip", id |-> "al3"]>>

\* GET albumInfo for one album id
AlbumInfoBody(id) ==
  IF id = "al2"
    THEN [albumName |-> "", assets |-> <<Clip(id \o "x")>>]
    ELSE [albumName |-> "Trip", assets |-> <<Photo(id \o "x"), Scan(id \o "y")>>]

\* POST search / POST randomSearch: the asset list
SearchItems == <<Scan("s1"), Photo("s2"), NoExt("s3"), Typed("s4"), Still("s5")>>
RandomItems == <<Photo("r1"), Clip("r2"), Scan("r3")>>
AnniversaryItems(year) == <<Photo("y" \o ToString(year))>>

\* The replies of the remote service to one request: a status (0: no
\* response, i.e. network failure or timeout) and the shape of the body.
\*   "ok"      the body the API documents for the request
\*   "wrapped" search only: {assets: {items: [...]}} ("ok" is {items: [...]})
\*   "bare"    search only: the bare list
\*   "object"  an object without any of the expected fields
\*   "null"    no body
Statuses == {0, 200, 404, 500}

Reply(status, shape) == [status |-> status, shape |-> shape]

Replies(shapes) ==
  {Reply(200, sh) : sh \in shapes} \cup {Reply(st, "null") : st \in Statuses \ {200}}

\* the parsed version bodies the version endpoint answers with
Versions ==
  {[major |-> 1, minor |-> 105, patch |-> 0], [major |-> 1, minor |-> 110, patch |-> 2],
   [major |-> 1, minor |-> 120, patch |-> 1]}

\* serverVersion as init declares it. A 200 body without a major field is
\* written the same way: undefined > -1 is false, as -1 > -1 is.
NoVersion == [major |-> -1, minor |-> -1, patch |-> -1]

VersionReplies ==
  {[status |-> 200, data |-> v] : v \in Versions \cup {NoVersion}}
    \cup {[status |-> st, data |-> NoVersion] : st \in Statuses \ {200}}

\* ------------------------------------------------------------------ state
VARIABLES
  config,          \* node helper: this.config, the payload of the last REGISTER
  http,            \* immichApi.http: the axios client, NoHttp for null
  apiLevel,        \* immichApi.apiLevel
  videoProxySetup, \* immichApi._videoProxySetup
  routes,          \* the express app: the middlewares registered with use()
  forwarded,       \* the express app: the request a proxy route forwarded last
  call,            \* per load cycle / init call: its position and locals
  outbox,          \* IMMICH_TILES_DATA events sent, not yet received
  images,          \* front end: the event whose list is this.images
  seen,            \* front end: the cycles whose data event it has received
  front            \* front end: its configuration, tiles, counters and timers

adapter == <<http, apiLevel, videoProxySetup, routes, forwarded>>
frontend == <<images, seen, front>>
vars ==
  <<config, http, apiLevel, videoProxySetup, routes, forwarded, call, outbox, images, seen,
    front>>

NoHttp == [baseURL |-> "", apiKey |-> "", timeout |-> 0]

apiBaseUrl == "/api"

\* axios.create({baseURL, timeout, headers}) for config
Client(cfg) ==
  [baseURL |-> cfg.url \o apiBaseUrl, apiKey |-> cfg.apiKey,
   timeout |-> IF cfg.timeout = 0 THEN 6000 ELSE cfg.timeout]

\* createProxyMiddleware({target, proxyTimeout, headers}) mounted at path
ProxyRoute(path, cfg, accept) ==
  [path |-> path, target |-> cfg.url, apiKey |-> cfg.apiKey,
   proxyTimeout |-> IF cfg.timeout = 0 THEN 6000 ELSE cfg.timeout, accept |-> accept]

\* a calendar date in some time zone; month is 0-based as Date.getMonth() is
Date(y, m, d) == [year |-> y, month |-> m, day |-> d]

IsLeapYear(y) == (y % 4 = 0 /\ y % 100 # 0) \/ y % 400 = 0

DaysInMonth(y, m) ==
  IF m = 1 THEN (IF IsLeapYear(y) THEN 29 ELSE 28)
  ELSE IF m \in {3, 5, 8, 10} THEN 30 ELSE 31

RECURSIVE NormalizeDate(_, _, _)
\* new Date(y, m, d) and setDate(d): a day outside the month rolls over into
\* the neighbouring months
NormalizeDate(y, m, d) ==
  IF d < 1
    THEN IF m = 0 THEN NormalizeDate(y - 1, 11, d + DaysInMonth(y - 1, 11))
         ELSE NormalizeDate(y, m - 1, d + DaysInMonth(y, m - 1))
  ELSE IF d > DaysInMonth(y, m)
    THEN IF m = 11 THEN NormalizeDate(y + 1, 0, d - DaysInMonth(y, m))
         ELSE NormalizeDate(y, m + 1, d - DaysInMonth(y, m))
  ELSE Date(y, m, d)

\* date.toISOString().split('T')[0] for a date at local midnight: the UTC
\* calendar day, which is the day before where local time is ahead of UTC
IsoDay(date, utcAhead) ==
  IF utcAhead THEN NormalizeDate(date.year, date.month, date.day - 1) ELSE date

\* new Date() when anniversarySearchAssets starts
Todays == {Date(2026, 5, 15), Date(2026, 11, 29), Date(2026, 0, 2)}

NoDate == Date(1970, 0, 1)

\* the body of the request anniversarySearchAssets sends for year: takenAfter
\* and takenBefore as the calendar days in front of their fixed time suffixes
AnniversaryBody(year, today, datesBack, datesForward, utcAhead) ==
  LET startDate == NormalizeDate(today.year, today.month, today.day - datesBack)
      endDate == NormalizeDate(today.year, today.month, today.day + datesForward)
      searchEndYear ==
        IF startDate.month > endDate.month
             \/ (startDate.month = endDate.month /\ startDate.day > endDate.day)
          THEN year + 1 ELSE year
      yStart == NormalizeDate(year, startDate.month, startDate.day)
      yEnd == NormalizeDate(searchEndYear, endDate.month, endDate.day)
  IN [year |-> year, takenAfter |-> IsoDay(yStart, utcAhead),
      takenBefore |-> IsoDay(yEnd, utcAhead)]

\* the locals of a call that has not started
\* no request has passed through a proxy route
NoForward ==
  [path |-> "", target |-> "", apiKey |-> "", proxyTimeout |-> 0, accept |-> "",
   template |-> "", id |-> ""]

NoRaw == [t |-> "none", v |-> <<>>]

Idle ==
  [pc |-> "none", kind |-> "none", force |-> FALSE, mod |-> NoConfig,
   i |-> 0, images |-> <<>>, albumIds |-> <<>>, path |-> "",
   \* history, kept for the properties
   init |-> "none", probes |-> <<>>, version |-> NoVersion, level |-> "",
   nreq |-> 0, nsub |-> 0, ok |-> {}, raw |-> NoRaw, ndata |-> 0,
   \* anniversary mode: the clock and time zone of the host, the bodies sent
   today |-> NoDate, utcAhead |-> FALSE, bodies |-> <<>>,
   \* search, random and anniversary mode: the size field of each body sent
   sizes |-> <<>>,
   \* album mode: the album list findAlbumIds got; the fetch requests issued
   albumMap |-> <<>>, reqs |-> <<>>,
   \* the tiles as the switch on sortImagesBy left them, before the reverse
   sorted |-> <<>>]

\* --------------------------------------------------- front end: start
Tiles == 1..NTiles

\* config.imageVideoRatio: a string or a number
RatioString(s) == [t |-> "string", s |-> s, n |-> 0]
RatioNumber(n) == [t |-> "number", s |-> <<>>, n |-> n]

\* the part of the front end's configuration its media selection, video
\* playback and timers read; the options that are no parameter have their
\* default
FrontConfig(enableVideos, videoAutoplay, videoMaxConcurrent, imageVideoRatio) ==
  [enableVideos |-> enableVideos, videoAutoplay |-> videoAutoplay,
   videoMaxConcurrent |-> videoMaxConcurrent, imageVideoRatio |-> imageVideoRatio,
   useFullscreenBelow |-> TRUE, randomizeTiles |-> TRUE, updateInterval |-> 10000,
   enableScrolling |-> FALSE, featuredShuffleMinutes |-> 10]

\* the defaults of the module
DefaultFrontConfig == FrontConfig(TRUE, TRUE, 1, RatioString(<<"4", ":", "1">>))

\* this._cadenceSeq = null
NoSeq == [seq |-> <<>>, image |-> -1, video |-> -1]

\* a tile without a video element. Of a tile's video element: playing, the
\* number of pending play() promises, whether onended / onpause are set, and
\* the element's autoplaying flag (set by loading a source, cleared by play()
\* and by pausing)
EmptyTile ==
  [element |-> FALSE, playing |-> FALSE, pending |-> 0, handlers |-> FALSE,
   autoplaying |-> FALSE]

\* the module object before start(): MagicMirror has set its config. A timer
\* handle is a positive number, 0 stands for null; rotation and featured are
\* the interval timers of the two kinds that are active; scrollRaf says that
\* an animation frame is requested; tileEls says that this.tileEls holds the
\* tiles of the grid (it is [] otherwise).
Constructed(cfg) ==
  [config |-> cfg, tiles |-> [t \in Tiles |-> EmptyTile], activeVideoCount |-> 0,
   nextImageIndex |-> 0, nextVideoIndex |-> 0, cadenceIndex |-> 0, cadenceSeq |-> NoSeq,
   timers |-> <<>>,
   root |-> FALSE, container |-> FALSE, tileEls |-> FALSE, initialFilled |-> FALSE,
   rotationTimer |-> 0, rotation |-> {}, featuredTimer |-> 0, featured |-> {},
   scrolling |-> FALSE, scrollRaf |-> FALSE,
   \* history: start() has run; stop() has run since the last start()
   started |-> FALSE, stopped |-> FALSE,
   \* history: what this.tileEls[index] was at the last rotation tick that
   \* computed an index, "tile" or "undefined" ("none" before the first)
   tick |-> "none",
   \* history: what _nextImage returned since the last data event
   picks |-> <<>>]

\* the handle setInterval returns: one that no active timer has and that the
\* module does not hold
NewTimer(f) ==
  CHOOSE n \in 1..(Cardinality(f.rotation \cup f.featured) + 3) :
    /\ n \notin f.rotation \cup f.featured \cup {f.rotationTimer, f.featuredTimer}
    /\ \A m \in 1..(n - 1) :
         m \in f.rotation \cup f.featured \cup {f.rotationTimer, f.featuredTimer}

\* clearInterval(handle) on a set of active timers
ClearInterval(active, handle) == active \ {handle}

\* _startRotation(): the timer this._rotationTimer names is cleared and a new
\* one set
startRotation(f) ==
  [f EXCEPT !.rotation = ClearInterval(@, f.rotationTimer) \cup {NewTimer(f)},
            !.rotationTimer = NewTimer(f)]

\* the timeouts _fillTilesInitial sets: one per tile of this.tileEls, then
\* the one that applies the featured tiles
FillTimers(tileEls, list) ==
  (IF tileEls
     THEN [i \in 1..NTiles |-> [kind |-> "tile", tile |-> i, usePlaceholders |-> list = <<>>]]
     ELSE <<>>)
    \o <<[kind |-> "featured", tile |-> 0, usePlaceholders |-> list = <<>>]>>

\* _fillTilesInitial() while this.images is list
fillTilesInitial(f, list) == [f EXCEPT !.timers = @ \o FillTimers(f.tileEls, list)]

\* _startScroll()
startScroll(f) ==
  IF ~f.container \/ f.scrolling THEN f ELSE [f EXCEPT !.scrolling = TRUE, !.scrollRaf = TRUE]

\* _stopScroll()
stopScroll(f) == [f EXCEPT !.scrolling = FALSE, !.scrollRaf = FALSE]

\* _maybeStartScroll()
maybeStartScroll(f) == IF f.config.enableScrolling THEN startScroll(f) ELSE stopScroll(f)

\* _buildRootElement() and the assignment of this._root that follows it: a
\* new grid of tiles
buildRootElement(f) ==
  [f EXCEPT !.tileEls = TRUE, !.tiles = [t \in Tiles |-> EmptyTile], !.container = TRUE,
            !.root = TRUE]

\* _ensureRootFullscreen(); the layout keeps a new grid at its size
ensureRootFullscreen(f) == IF f.root THEN f ELSE maybeStartScroll(buildRootElement(f))

\* start(), "Module start lifecycle hook", from the assignments on
StartReset(f) ==
  [f EXCEPT !.tileEls = FALSE, !.rotationTimer = 0, !.featuredTimer = 0,
            !.nextImageIndex = 0, !.nextVideoIndex = 0, !.activeVideoCount = 0,
            !.cadenceIndex = 0, !.cadenceSeq = NoSeq, !.initialFilled = FALSE,
            !.started = TRUE, !.stopped = FALSE, !.picks = <<>>]

\* start(), "Show placeholders immediately": this.images is [] here
StartFill(f) ==
  startRotation(IF f.container
                  THEN [fillTilesInitial(f, <<>>) EXCEPT !.initialFilled = TRUE]
                  ELSE f)

\* start() on the module f
start(f) ==
  StartFill(IF f.config.useFullscreenBelow THEN ensureRootFullscreen(StartReset(f))
            ELSE StartReset(f))

\* the module after start()
FrontStart(cfg) == start(Constructed(cfg))

\* the data event before the first IMMICH_TILES_DATA: this.images = []
NoEvent == [cycle |-> 0, source |-> "none", images |-> <<>>]

Init ==
  /\ config = NoConfig
  /\ http = NoHttp
  /\ apiLevel = NewestLevel
  /\ videoProxySetup = FALSE
  /\ routes = <<>>
  /\ forwarded = NoForward
  /\ call = [p \in Calls |-> Idle]
  /\ outbox = <<>>
  /\ images = NoEvent
  /\ seen = {}
  /\ front = FrontStart(DefaultFrontConfig)

\* the calls start in the order of their numbers
IsNext(p) == call[p].pc = "none" /\ \A q \in Calls : q < p => call[q].pc # "none"

\* the normalized Immich configuration of the call (the local cfg)
Cfg(st) == normalizeImmichConfig(st.mod)

\* ------------------------------------------------- node helper: data events
DigitChars == <<"0", "1", "2", "3", "4", "5", "6", "7", "8", "9">>

RECURSIVE Digits(_)
\* the decimal digits of n
Digits(n) ==
  IF n < 10 THEN <<DigitChars[n + 1]>> ELSE Digits(n \div 10) \o <<DigitChars[(n % 10) + 1]>>

Max(a, b) == IF a > b THEN a ELSE b

PlaceholderSrc == "/MMM-ImmichTileSlideShow/placeholder.svg"

\* a variant without the floor: (tileRows || 2) * (tileCols || 3) * 3
PlaceholderCountOfGrid(moduleConfig) ==
  (IF moduleConfig.tileRows = 0 THEN 2 ELSE moduleConfig.tileRows)
    * (IF moduleConfig.tileCols = 0 THEN 3 ELSE moduleConfig.tileCols) * 3

\* Math.max(12, (tileRows || 2) * (tileCols || 3) * 3)
PlaceholderCount(moduleConfig) ==
  Max(12, (IF moduleConfig.tileRows = 0 THEN 2 ELSE moduleConfig.tileRows)
            * (IF moduleConfig.tileCols = 0 THEN 3 ELSE moduleConfig.tileCols) * 3)

\* the list _sendInitialImages builds
Placeholders(moduleConfig) ==
  [i \in 1..PlaceholderCount(moduleConfig) |->
     [kind |-> "image", src |-> PlaceholderSrc, posterSrc |-> "",
      title |-> <<"T", "i", "l", "e", " ">> \o Digits(i), takenAt |-> Null, albumName |-> ""]]

\* sendSocketNotification("IMMICH_TILES_DATA", {images}) ends the call; the
\* history of its negotiation is dropped with the locals of init
SendData(p, st, source, list) ==
  LET ev == [cycle |-> p, source |-> source, images |-> list]
  IN /\ call' = [call EXCEPT ![p] = [st EXCEPT !.pc = "done", !.ndata = @ + 1,
                                               !.probes = <<>>, !.version = NoVersion,
                                               !.level = ""]]
     /\ outbox' = Append(outbox, ev)

\* a variant that sends an empty list
SendNoImages(p, st, cur) == SendData(p, st, "placeholder", <<>>)

\* _sendInitialImages(): reads this.config as it is when it runs
SendInitialImages(p, st, cur) == SendData(p, st, "placeholder", Placeholders(cur))

\* a variant without the catch handler: the rejection ends the cycle and
\* nothing is sent
CycleRejectsUncaught(p, st) ==
  /\ call' = [call EXCEPT ![p] = [st EXCEPT !.pc = "done"]]
  /\ UNCHANGED outbox

\* the promise of _loadFromImmichImpl rejects: the catch handler of
\* socketNotificationReceived sends the placeholders
CycleRejects(p, st) == SendInitialImages(p, st, config')

\* ------------------------------------------- node helper: filter, map, sort
\* A fetch result is a JavaScript value: [t |-> "list", v |-> the assets] or
\* [t |-> "object"], an object that is no array.
List(v) == [t |-> "list", v |-> v]
Object == [t |-> "object", v |-> <<>>]

\* the tiles of a raw list: images.filter(...) then .map(toTileImage)
MapTiles(list, enableVideos, moduleConfig) ==
  LET validImageSet == ExtensionSet(moduleConfig.validImageFileExtensions)
      validVideoSet == ExtensionSet(moduleConfig.validVideoFileExtensions)
      kept == SelectSeq(list, LAMBDA img : KeepAsset(img, enableVideos, validImageSet, validVideoSet))
  IN [k \in 1..Len(kept) |-> toTileImage(kept[k], IsVideo(kept[k], validVideoSet))]

\* _loadFromImmichImpl from "Filter by extension and kind" to the end, for the
\* fetch result raw. The extension sets were built when the cycle started;
\* enableVideos is read from context.config when the filter runs. A raw value
\* that is no array has no .map: the TypeError rejects the cycle.
Deliver(p, st, raw) ==
  LET fin == [st EXCEPT !.raw = raw, !.path = ""]
      cfg == Cfg(st)
  IN IF raw.t # "list"
       THEN CycleRejects(p, fin)
       ELSE LET tiles == MapTiles(raw.v, config'.enableVideos, st.mod)
            IN \E rnd \in (IF cfg.sortImagesBy = "random"
                             THEN RandomDraws(Len(tiles))
                             ELSE {[k \in 1..Len(tiles) |-> k]}) :
                 SendData(p, [fin EXCEPT !.sorted = SortStep(tiles, cfg.sortImagesBy, rnd)],
                          "immich",
                          SortTiles(tiles, cfg.sortImagesBy, cfg.sortImagesDescending, rnd))

\* ------------------------------------------------ immichApi: fetch requests
\* the requests issued by the loop of a mode: one day, one album, one year
SubRequests == {"memoryLane", "albumInfo", "anniversary"}

\* the call awaits the reply to a request for path; nreq counts the fetch
\* requests of the call, nsub those its loop issued
Await(p, st, pc, path) ==
  /\ call' = [call EXCEPT ![p] = [st EXCEPT !.pc = pc, !.path = path, !.nreq = @ + 1,
                                            !.reqs = Append(@, pc),
                                            !.nsub = IF pc \in SubRequests THEN @ + 1 ELSE @]]
  /\ UNCHANGED outbox

\* this.apiUrls[this.apiLevel].randomSearch: "" for undefined
RandomSearchPath(level) ==
  IF "randomSearch" \in DOMAIN apiUrls[level] THEN apiUrls[level].randomSearch ELSE ""

\* getAlbumAssetsForAlbumIds: the loop at index st.i (0-based)
AlbumLoop(p, st, level) ==
  IF st.i < Len(st.albumIds)
    THEN Await(p, st, "albumInfo", apiUrls[level].albumInfo)
    ELSE Deliver(p, st, List(st.images))

\* a variant that requests a day and the day before it at once
MemoryLoopInPairs(p, st, level) ==
  IF st.i < Cfg(st).numDaysToInclude
    THEN Await(p, [st EXCEPT !.nreq = @ + 1, !.nsub = @ + 1], "memoryLane",
               apiUrls[level].memoryLane)
    ELSE Deliver(p, st, List(st.images))

\* size || 100
SizeOr100(size) == IF size = 0 THEN 100 ELSE size

\* searchAssets: { ...(query || {}), size: size || 100 }
SearchBody(query, size) == Spread(query, [size |-> SizeOr100(size)])

\* randomSearchAssets: { size: size || 100, ...(query || {}) }
RandomBody(size, query) == Spread([size |-> SizeOr100(size)], query)

\* anniversarySearchAssets: { ...(query || {}), size: querySize || 100, ... },
\* the part of the body in front of takenAfter and takenBefore
AnniversaryQueryBody(querySize, query) == Spread(query, [size |-> SizeOr100(querySize)])

\* the call sends body: its size field is kept
Sends(st, body) == [st EXCEPT !.sizes = Append(@, body.size)]

\* getMemoryLaneAssets: for (let i = 0; i < numDays; i++)
MemoryLoop(p, st, level) ==
  IF st.i < Cfg(st).numDaysToInclude
    THEN Await(p, st, "memoryLane", apiUrls[level].memoryLane)
    ELSE Deliver(p, st, List(st.images))

\* anniversarySearchAssets: for (let year = startYear; year <= endYear; year++)
AnniversaryLoop(p, st, level) ==
  IF Cfg(st).anniversaryStartYear + st.i <= Cfg(st).anniversaryEndYear
    THEN LET body == AnniversaryBody(Cfg(st).anniversaryStartYear + st.i, st.today,
                                     Cfg(st).anniversaryDatesBack,
                                     Cfg(st).anniversaryDatesForward, st.utcAhead)
         IN Await(p, Sends([st EXCEPT !.bodies = Append(@, body)],
                           AnniversaryQueryBody(Cfg(st).querySize, Cfg(st).query)),
                  "anniversary", RandomSearchPath(level))
    ELSE Deliver(p, st, List(st.images))

\* _loadFromImmichImpl after `await immichApi.init(...)`: the dispatch on
\* cfg.mode up to its first request; level is this.apiLevel at that time
StartFetch(p, st, level) ==
  LET cfg == Cfg(st)
  IN CASE cfg.mode = "album" ->
            IF cfg.albumName # <<>> /\ cfg.albumId = <<>>
              THEN Await(p, st, "findAlbumIds", apiUrls[level].albums)
              ELSE IF cfg.albumId # <<>>
                     THEN AlbumLoop(p, [st EXCEPT !.albumIds = cfg.albumId], level)
                     ELSE Await(p, st, "listAlbums", apiUrls[level].albums)
       [] cfg.mode = "search" ->
            Await(p, Sends(st, SearchBody(cfg.query, cfg.querySize)), "search",
                  apiUrls[level].search)
       [] cfg.mode = "random" ->
            Await(p, Sends(st, RandomBody(cfg.querySize, cfg.query)), "randomSearch",
                  RandomSearchPath(level))
       [] cfg.mode = "anniversary" ->
            \E today \in Todays, utcAhead \in BOOLEAN :
              AnniversaryLoop(p, [st EXCEPT !.today = today, !.utcAhead = utcAhead], level)
       [] OTHER -> MemoryLoop(p, st, level)

\* a reply with status 200 whose body has the documented shape
IsOk(r) == r.status = 200 /\ r.shape = "ok"

\* the replies a request for path can get: a request without a path (the
\* level has no randomSearch) reaches no endpoint that answers with assets
RepliesTo(path, shapes) ==
  IF path = "" THEN Replies(shapes \ {"ok"}) ELSE Replies(shapes)

PlainShapes == {"ok", "object", "null"}
SearchShapes == {"ok", "wrapped", "bare", "object", "null"}

RECURSIVE PrependGroups(_, _)
\* response.data.forEach((m) => (images = m.assets.concat(images)))
PrependGroups(groups, acc) ==
  IF groups = <<>> THEN acc ELSE PrependGroups(Tail(groups), Head(groups).assets \o acc)

\* a variant whose loop ends at the first day that fails
MemoryReplyUntilFailure(p, r) ==
  LET st == call[p]
      got == IF IsOk(r) THEN PrependGroups(MemoryLaneBody(st.i), st.images) ELSE st.images
      nxt == [st EXCEPT !.images = got, !.i = @ + 1,
                        !.ok = IF IsOk(r) THEN @ \cup {st.i} ELSE @]
  IN /\ st.pc = "memoryLane"
     /\ UNCHANGED <<config, adapter, frontend>>
     /\ IF IsOk(r) THEN MemoryLoop(p, nxt, apiLevel) ELSE Deliver(p, nxt, List(nxt.images))

\* getMemoryLaneAssets: one day's reply, then the next iteration
MemoryReply(p, r) ==
  LET st == call[p]
      got == IF IsOk(r) THEN PrependGroups(MemoryLaneBody(st.i), st.images) ELSE st.images
      nxt == [st EXCEPT !.images = got, !.i = @ + 1,
                        !.ok = IF IsOk(r) THEN @ \cup {st.i} ELSE @]
  IN /\ st.pc = "memoryLane"
     /\ UNCHANGED <<config, adapter, frontend>>
     /\ MemoryLoop(p, nxt, apiLevel)

\* a variant in which the first album of a name keeps its entry
AlbumMapGetFirst(albums, name) ==
  LET hits == {k \in DOMAIN albums : albums[k].albumName = name}
  IN albums[CHOOSE k \in hits : \A j \in hits : k <= j].id

\* getAlbumNameToIdMap: map.set(album.albumName, album.id) over the list; the
\* map as the list of its names with the id set last
AlbumMapGet(albums, name) ==
  LET hits == {k \in DOMAIN albums : albums[k].albumName = name}
  IN albums[CHOOSE k \in hits : \A j \in hits : j <= k].id

AlbumMapHas(albums, name) == \E k \in DOMAIN albums : albums[k].albumName = name

RECURSIVE ResolveNames(_, _)
\* findAlbumIds: ids.concat(albumMap.get(name)) for the names the map has
ResolveNames(names, albums) ==
  IF names = <<>> THEN <<>>
  ELSE (IF AlbumMapHas(albums, Head(names)) THEN <<AlbumMapGet(albums, Head(names))>> ELSE <<>>)
         \o ResolveNames(Tail(names), albums)

\* a variant in which findAlbumIds throws when no name is in the album list
FindAlbumIdsReplyOrThrow(p, r) ==
  LET st == call[p]
      albums == IF IsOk(r) THEN AlbumsBody ELSE <<>>
      nxt == [st EXCEPT !.albumIds = ResolveNames(Cfg(st).albumName, albums), !.i = 0,
                        !.albumMap = albums]
  IN /\ st.pc = "findAlbumIds"
     /\ UNCHANGED <<config, adapter, frontend>>
     /\ IF nxt.albumIds = <<>> THEN CycleRejects(p, [nxt EXCEPT !.path = ""])
        ELSE AlbumLoop(p, nxt, apiLevel)

\* findAlbumIds: the reply to its album list request; the returned array is
\* truthy even when empty, so the album loop follows
FindAlbumIdsReply(p, r) ==
  LET st == call[p]
      albums == IF IsOk(r) THEN AlbumsBody ELSE <<>>
      nxt == [st EXCEPT !.albumIds = ResolveNames(Cfg(st).albumName, albums), !.i = 0,
                        !.albumMap = albums]
  IN /\ st.pc = "findAlbumIds"
     /\ UNCHANGED <<config, adapter, frontend>>
     /\ AlbumLoop(p, nxt, apiLevel)

\* the reply to the album list request made to log the available albums;
\* images stays []
ListAlbumsReply(p, r) ==
  LET st == call[p]
  IN /\ st.pc = "listAlbums"
     /\ UNCHANGED <<config, adapter, frontend>>
     /\ Deliver(p, st, List(<<>>))

\* a variant that returns the assets as the album detail lists them
AlbumAssetsAsListed(body) == body.assets

\* getAlbumAssets: images = [...response.data.assets], each stamped with
\* response.data.albumName when that is set
AlbumAssets(body) ==
  [k \in 1..Len(body.assets) |->
     IF body.albumName # "" THEN [body.assets[k] EXCEPT !.albumName = body.albumName]
     ELSE body.assets[k]]

\* getAlbumAssetsForAlbumIds: one album's reply, then the next iteration
AlbumInfoReply(p, r) ==
  LET st == call[p]
      current == IF IsOk(r) THEN AlbumAssets(AlbumInfoBody(st.albumIds[st.i + 1])) ELSE <<>>
      nxt == [st EXCEPT !.images = @ \o current, !.i = @ + 1,
                        !.ok = IF IsOk(r) THEN @ \cup {st.i} ELSE @]
  IN /\ st.pc = "albumInfo"
     /\ UNCHANGED <<config, adapter, frontend>>
     /\ AlbumLoop(p, nxt, apiLevel)

\* searchAssets: response.data.assets?.items || response.data.items ||
\* response.data || []
SearchResult(r) ==
  IF r.status = 200 /\ r.shape \in {"ok", "wrapped", "bare"} THEN List(SearchItems)
  ELSE IF r.status = 200 /\ r.shape = "object" THEN Object
  ELSE List(<<>>)

SearchReply(p, r) ==
  LET st == call[p]
  IN /\ st.pc = "search"
     /\ UNCHANGED <<config, adapter, frontend>>
     /\ Deliver(p, [st EXCEPT !.ok = IF SearchResult(r) = List(SearchItems) THEN {0} ELSE {}],
                SearchResult(r))

\* randomSearchAssets: response.data || []
RandomResult(r) ==
  IF IsOk(r) THEN List(RandomItems)
  ELSE IF r.status = 200 /\ r.shape = "object" THEN Object
  ELSE List(<<>>)

RandomReply(p, r) ==
  LET st == call[p]
  IN /\ st.pc = "randomSearch"
     /\ UNCHANGED <<config, adapter, frontend>>
     /\ Deliver(p, [st EXCEPT !.ok = IF IsOk(r) THEN {0} ELSE {}], RandomResult(r))

\* anniversarySearchAssets: images.concat(response.data || []) for one year,
\* then the next iteration
AnniversaryReply(p, r) ==
  LET st == call[p]
      year == Cfg(st).anniversaryStartYear + st.i
      got == IF IsOk(r) THEN AnniversaryItems(year)
             ELSE IF r.status = 200 /\ r.shape = "object" THEN <<BareObject>>
             ELSE <<>>
      nxt == [st EXCEPT !.images = @ \o got, !.i = @ + 1,
                        !.ok = IF IsOk(r) THEN @ \cup {st.i} ELSE @]
  IN /\ st.pc = "anniversary"
     /\ UNCHANGED <<config, adapter, frontend>>
     /\ AnniversaryLoop(p, nxt, apiLevel)

\* ------------------------------------------------------ immichApi: init
\* the end of a direct init call: the promise settles, nothing follows
Return(p, st) ==
  /\ call' = [call EXCEPT ![p] = [st EXCEPT !.pc = "done", !.path = ""]]
  /\ UNCHANGED outbox

\* a variant that negotiates on every call
InitGuardAlways(force) == TRUE

\* `if (this.http === null || force)`
InitGuard(force) == http = NoHttp \/ force

\* `if (serverVersion.major > -1) {...}`: the level for a parsed version;
\* cur is this.apiLevel when the version arrives
LevelForVersion(cur, serverVersion) ==
  IF serverVersion.major = 1
    THEN IF serverVersion.minor >= 106 /\ serverVersion.minor < 118 THEN "v1_106"
         ELSE IF serverVersion.minor < 106 THEN "v1_94"
         ELSE cur
    ELSE cur

\* expressApp.use(...) of init: the image route on every pass, the video
\* route under the _videoProxySetup flag
RegisterProxies(cfg) ==
  /\ routes' = routes \o <<ProxyRoute(IMMICH_PROXY_URL, cfg, "application/octet-stream")>>
                 \o (IF videoProxySetup THEN <<>>
                     ELSE <<ProxyRoute(IMMICH_VIDEO_PROXY_URL, cfg, "video/*")>>)
  /\ videoProxySetup' = TRUE

\* init throws 'Failed to get Immich version. Cannot proceed.'
InitRejects(p, st) ==
  /\ UNCHANGED <<apiLevel, videoProxySetup, routes>>
  /\ IF st.kind = "cycle"
       THEN CycleRejects(p, [st EXCEPT !.init = "rejected", !.path = ""])
       ELSE Return(p, [st EXCEPT !.init = "rejected"])

\* init from `if (serverVersion.major > -1)` to its end, then what the caller
\* does with the resolved promise
InitResolves(p, st, serverVersion) ==
  LET level == LevelForVersion(apiLevel, serverVersion)
      res == [st EXCEPT !.init = "resolved", !.version = serverVersion, !.level = level]
  IN /\ apiLevel' = level
     /\ RegisterProxies(Cfg(st))
     /\ IF st.kind = "cycle" THEN StartFetch(p, res, level) ELSE Return(p, res)

\* serverVersion = response.data, then the test on serverVersion.major
GotVersion(p, st, data) ==
  IF data.major > -1 THEN InitResolves(p, st, data) ELSE InitRejects(p, st)

\* `while (!found && !!this.apiUrls[this.apiLevel].previousVersion)` with
\* found false: the next probe, or the end of the walk without a version
Walk(p, st) ==
  IF HasPrevious(apiLevel)
    THEN LET prev == apiUrls[apiLevel].previousVersion
         IN /\ apiLevel' = prev
            /\ call' = [call EXCEPT ![p] = [st EXCEPT !.pc = "walk", !.probes = Append(@, prev),
                                                      !.path = apiUrls[prev].serverInfoUrl]]
            /\ UNCHANGED <<videoProxySetup, routes, outbox>>
    ELSE InitRejects(p, st)

\* a reply to a version probe: a status that validateStatus refuses (or no
\* response) throws into the catch block, which leaves serverVersion at -1
VersionReply(p, st, r) ==
  IF ~ValidateStatus(r.status) THEN InitRejects(p, st)
  ELSE IF r.status = 200 THEN GotVersion(p, st, r.data)
  ELSE Walk(p, st)

\* the reply to the first probe of init
ProbeReply(p, r) ==
  /\ call[p].pc = "probe"
  /\ UNCHANGED <<config, http, forwarded, frontend>>
  /\ VersionReply(p, call[p], r)

\* the reply to a probe of the fallback walk
WalkReply(p, r) ==
  /\ call[p].pc = "walk"
  /\ UNCHANGED <<config, http, forwarded, frontend>>
  /\ VersionReply(p, call[p], r)

\* init(config, expressApp, force) up to its first await
InitEnter(p, st, force) ==
  IF InitGuard(force)
    THEN /\ http' = Client(Cfg(st))
         /\ call' = [call EXCEPT ![p] = [st EXCEPT !.pc = "probe", !.init = "pending",
                                                   !.probes = <<apiLevel>>,
                                                   !.path = apiUrls[apiLevel].serverInfoUrl]]
         /\ UNCHANGED <<apiLevel, videoProxySetup, routes, forwarded, outbox>>
    ELSE /\ UNCHANGED adapter
         /\ IF st.kind = "cycle"
              THEN StartFetch(p, [st EXCEPT !.init = "skipped"], apiLevel)
              ELSE Return(p, [st EXCEPT !.init = "skipped"])

\* ------------------------------------------------ node helper: REGISTER
\* socketNotificationReceived("IMMICH_TILES_REGISTER", {config: mod}), with
\* _loadFromImmichImpl up to the first await of init
Register(p, mod) ==
  LET st == [Idle EXCEPT !.kind = "cycle", !.force = TRUE, !.mod = mod]
  IN /\ IsNext(p)
     /\ config' = mod
     /\ UNCHANGED frontend
     /\ IF HasImmich(mod)
          THEN InitEnter(p, st, TRUE)
          ELSE /\ UNCHANGED adapter
               /\ SendInitialImages(p, st, mod)

\* immichApi.init(normalizeImmichConfig(mod), expressApp, force) called on
\* its own
InitCall(p, mod, force) ==
  /\ IsNext(p)
  /\ HasImmich(mod)
  /\ UNCHANGED <<config, frontend>>
  /\ InitEnter(p, [Idle EXCEPT !.kind = "init", !.force = force, !.mod = mod], force)

\* ------------------------------------------------ immichApi: proxy routes
\* the middleware express hands a request under the mount path to: the one
\* registered first
Handler(path) ==
  routes[CHOOSE k \in DOMAIN routes :
           routes[k].path = path /\ \A j \in 1..(k - 1) : routes[j].path # path]

\* pathRewrite of the two routes: apiBaseUrl + the template of
\* this.apiLevel, read when the request passes, with {id} replaced by the
\* last part of the path. The template is kept with the id beside it.
pathRewrite(path, level) ==
  apiBaseUrl \o (IF path = IMMICH_VIDEO_PROXY_URL THEN apiUrls[level].videoStream
                 ELSE apiUrls[level].assetDownload)

\* a request for path + id arrives at the express app and is forwarded by
\* the proxy middleware mounted there
ProxyRequest(path, id) ==
  /\ \E k \in DOMAIN routes : routes[k].path = path
  /\ forwarded' = [path |-> path, target |-> Handler(path).target,
                   apiKey |-> Handler(path).apiKey,
                   proxyTimeout |-> Handler(path).proxyTimeout,
                   accept |-> Handler(path).accept,
                   template |-> pathRewrite(path, apiLevel), id |-> id]
  /\ UNCHANGED <<config, http, apiLevel, videoProxySetup, routes, call, outbox, frontend>>

\* -------------------------------------------- front end: media selection
\* _splitMedia: (m && m.kind) || 'image'
ImagePool(list) == SelectSeq(list, LAMBDA m : m.kind # "video")
VideoPool(list) == SelectSeq(list, LAMBDA m : m.kind = "video")

\* _placeholderImage(i): a record without kind
FrontPlaceholder(i) ==
  [kind |-> "", src |-> PlaceholderSrc, posterSrc |-> "",
   title |-> <<"#">> \o Digits((i % 9) + 1), takenAt |-> Null, albumName |-> ""]

RECURSIVE ParseInt(_, _)
\* parseInt(s, 10) || 0 for a string without sign: the value of the leading
\* digits, 0 when there is none; acc is the value read so far
ParseInt(s, acc) ==
  IF s = <<>> \/ Head(s) \notin Range(DigitChars) THEN acc
  ELSE ParseInt(Tail(s), acc * 10 + (CHOOSE d \in 0..9 : DigitChars[d + 1] = Head(s)))

\* _parseImageVideoRatio()
parseImageVideoRatio(r) ==
  LET parts == split(r.s, ":")
      a == Max(0, ParseInt(trim(parts[1]), 0))
      b == Max(0, ParseInt(trim(parts[2]), 0))
      img == IF r.t = "string" /\ ":" \in Range(r.s) THEN (IF a > 0 THEN a ELSE 4)
             ELSE IF r.t = "number" /\ r.n >= 0 THEN r.n
             ELSE 4
      vid == IF r.t = "string" /\ ":" \in Range(r.s) THEN (IF b > 0 THEN b ELSE 1) ELSE 1
  IN IF img = 0 /\ vid = 0 THEN [image |-> 1, video |-> 0] ELSE [image |-> img, video |-> vid]

\* the sequence _selectMediaKind builds: w.image times 'image', then w.video
\* times 'video'
CadenceSeq(w) == [k \in 1..(w.image + w.video) |-> IF k <= w.image THEN "image" ELSE "video"]

\* _selectMediaKind, "Build/update deterministic sequence": the module f with
\* the sequence of the weights w, rebuilt if it is missing or of other weights
WithCadenceSeq(f, w) ==
  IF \/ f.cadenceSeq = NoSeq \/ Len(f.cadenceSeq.seq) # w.image + w.video
     \/ f.cadenceSeq.image # w.image \/ f.cadenceSeq.video # w.video
    THEN [f EXCEPT !.cadenceSeq = [seq |-> CadenceSeq(w), image |-> w.image,
                                   video |-> w.video],
                   !.cadenceIndex = 0]
    ELSE f

\* _selectMediaKind from "const total" on, for the parsed weights w
SelectByCadence(f, w) ==
  LET g == WithCadenceSeq(f, w)
  IN IF w.image + w.video <= 0 THEN [kind |-> "image", front |-> f]
     ELSE [kind |-> g.cadenceSeq.seq[(g.cadenceIndex % Len(g.cadenceSeq.seq)) + 1],
           front |-> [g EXCEPT !.cadenceIndex = (@ + 1) % Len(g.cadenceSeq.seq)]]

\* _selectMediaKind() on the module f showing list: the kind chosen and the
\* module afterwards
selectMediaKind(f, list) ==
  IF ~f.config.enableVideos \/ VideoPool(list) = <<>> THEN [kind |-> "image", front |-> f]
  ELSE IF ImagePool(list) = <<>> THEN [kind |-> "video", front |-> f]
  ELSE SelectByCadence(f, parseImageVideoRatio(f.config.imageVideoRatio))

\* _nextImage: the next media of the pool of kind, its index advanced; the
\* media returned is recorded in picks
TakeNext(kind, g, list) ==
  IF kind = "video"
    THEN LET v == VideoPool(list)[(g.nextVideoIndex % Len(VideoPool(list))) + 1]
         IN [media |-> v,
             front |-> [g EXCEPT !.nextVideoIndex = (@ + 1) % Len(VideoPool(list)),
                                 !.picks = Append(@, [kind |-> v.kind, src |-> v.src])]]
    ELSE LET im == ImagePool(list)[(g.nextImageIndex % Len(ImagePool(list))) + 1]
         IN [media |-> im,
             front |-> [g EXCEPT !.nextImageIndex = (@ + 1) % Len(ImagePool(list)),
                                 !.picks = Append(@, [kind |-> im.kind, src |-> im.src])]]

\* _nextImage() on the module f showing list: the media returned and the
\* module afterwards
nextImage(f, list) ==
  LET hasImages == ImagePool(list) # <<>>
      hasVideos == VideoPool(list) # <<>> /\ f.config.enableVideos
      sel == selectMediaKind(f, list)
  IN IF ~hasImages /\ ~hasVideos THEN [media |-> FrontPlaceholder(0), front |-> f]
     ELSE TakeNext(IF sel.kind = "video" /\ hasVideos THEN "video"
                   ELSE IF hasImages THEN "image"
                   ELSE "video",
                   sel.front, list)

\* --------------------------------------------------- front end: tiles
\* Number(this.config.videoMaxConcurrent || 1)
MaxConcurrent(cfg) == IF cfg.videoMaxConcurrent = 0 THEN 1 ELSE cfg.videoMaxConcurrent

\* _applyTile(tile, image) on the module f. Assigning src makes the video
\* element load the new source: what it played stops and a pending play()
\* promise is rejected.
applyTile(f, t, image) ==
  LET old == f.tiles[t]
      torn == old.element /\ image.kind # "video"
      count == IF torn THEN Max(0, f.activeVideoCount - 1) ELSE f.activeVideoCount
      canPlay == count < MaxConcurrent(f.config)
      plays == canPlay /\ f.config.videoAutoplay
      new == IF image.kind = "video" /\ f.config.enableVideos
               THEN [element |-> TRUE, playing |-> FALSE,
                     pending |-> IF plays THEN 1 ELSE 0,
                     handlers |-> old.element /\ old.handlers,
                     autoplaying |-> ~plays]
             ELSE IF torn THEN EmptyTile
             ELSE old
  IN [f EXCEPT !.tiles[t] = new, !.activeVideoCount = count]

\* this.tileEls.length below which _applyFeaturedTiles does nothing
FeaturedMinTiles == 6

\* _scheduleFeaturedShuffle()
scheduleFeaturedShuffle(f) ==
  IF f.config.featuredShuffleMinutes <= 0
    THEN (IF f.featuredTimer # 0
            THEN [f EXCEPT !.featured = ClearInterval(@, f.featuredTimer), !.featuredTimer = 0]
            ELSE f)
  ELSE IF f.featuredTimer # 0 THEN f
  ELSE [f EXCEPT !.featured = @ \cup {NewTimer(f)}, !.featuredTimer = NewTimer(f)]

\* _applyFeaturedTiles(): which tiles are featured is not part of the state
applyFeaturedTiles(f) ==
  IF f.config.enableScrolling THEN f
  ELSE IF ~f.tileEls \/ NTiles < FeaturedMinTiles THEN f
  ELSE scheduleFeaturedShuffle(f)

\* (this.images && this.images.length) ? this._nextImage() : this._placeholderImage(i)
NextMedia(f, list, i) ==
  IF list # <<>> THEN nextImage(f, list) ELSE [media |-> FrontPlaceholder(i), front |-> f]

\* _applyTile(tile, media) for the media just taken
ApplySel(sel, t) == applyTile(sel.front, t, sel.media)

RECURSIVE FillAdded(_, _, _)
\* _recalculateTiles, "Fill newly added tiles quickly", from tile t on
FillAdded(f, t, list) ==
  IF t > NTiles THEN f ELSE FillAdded(ApplySel(NextMedia(f, list, t - 1), t), t + 1, list)

\* _recalculateTiles() while this.images is list, for a container that is
\* laid out for NTiles tiles: an empty this.tileEls gets new tiles, which
\* are filled at once
recalculateTiles(f, list) ==
  IF ~f.container \/ f.tileEls THEN f
  ELSE applyFeaturedTiles(FillAdded([f EXCEPT !.tileEls = TRUE,
                                              !.tiles = [t \in Tiles |-> EmptyTile]],
                                    1, list))

\* a tile timer of _fillTilesInitial fires
FillTile ==
  /\ front.timers # <<>>
  /\ Head(front.timers).kind = "tile"
  /\ Len(front.picks) < MaxPicks
  /\ LET tm == Head(front.timers)
         f == [front EXCEPT !.timers = Tail(@)]
         sel == IF tm.usePlaceholders
                  THEN [media |-> FrontPlaceholder(tm.tile - 1), front |-> f]
                  ELSE nextImage(f, images.images)
     IN front' = applyTile(sel.front, tm.tile, sel.media)
  /\ UNCHANGED <<config, adapter, call, outbox, images, seen>>

\* the last timer of _fillTilesInitial fires
FeaturedTimeout ==
  /\ front.timers # <<>>
  /\ Head(front.timers).kind = "featured"
  /\ front' = applyFeaturedTiles([front EXCEPT !.timers = Tail(@)])
  /\ UNCHANGED <<config, adapter, call, outbox, images, seen>>

\* the timeout of _ensureRootInline fires
InlineTimeout ==
  /\ front.timers # <<>>
  /\ Head(front.timers).kind = "inline"
  /\ front' = maybeStartScroll(recalculateTiles([front EXCEPT !.timers = Tail(@)],
                                                images.images))
  /\ UNCHANGED <<config, adapter, call, outbox, images, seen>>

\* Date.now() at a rotation tick, in milliseconds
TickTimes == {20000, 30000, 35000}

\* (Date.now() / updateInterval) % tileEls.length for Date.now() = now: the
\* whole part of the quotient's remainder and whether it has a fraction
TickIndex(now, updateInterval) ==
  [whole |-> (now % (updateInterval * NTiles)) \div updateInterval,
   frac |-> (now % (updateInterval * NTiles)) % updateInterval # 0]

\* the end of a rotation tick: this.tileEls[index] gets the media; for an
\* index that is no array index it is undefined and _applyTile throws
RotateTo(sel, index) ==
  IF index.frac \/ index.whole \notin 0..(NTiles - 1)
    THEN [sel.front EXCEPT !.tick = "undefined"]
    ELSE [applyTile(sel.front, index.whole + 1, sel.media) EXCEPT !.tick = "tile"]

\* a rotation tick from the choice of the tile on: a video goes to a tile
\* of the centre band while the container exists; t is the tile a random
\* draw names, now the time of the tick
RotateSel(sel, t, now) ==
  RotateTo(sel,
           IF \/ sel.media.kind = "video" /\ sel.front.config.enableVideos /\ sel.front.container
              \/ sel.front.config.randomizeTiles
             THEN [whole |-> t - 1, frac |-> FALSE]
             ELSE TickIndex(now, sel.front.config.updateInterval))

\* an interval timer of _startRotation fires: one tile gets the next media.
\* Date.now() is read only when randomizeTiles is off: one tick time stands
\* for all otherwise.
Rotate(t, now) ==
  /\ front.rotation # {}
  /\ front.config.randomizeTiles => \A other \in TickTimes : now <= other
  /\ Len(front.picks) < MaxPicks
  /\ front' = IF ~front.tileEls THEN front
              ELSE RotateSel(NextMedia(front, images.images, 0), t, now)
  /\ UNCHANGED <<config, adapter, call, outbox, images, seen>>

\* the animation frame of _startScroll runs: step(ts). Without a container
\* the assignment to its style throws and no frame is requested; with one,
\* tiles scrolled out of view (recycle, by the layout) get the next media
ScrollStep(recycle) ==
  /\ front.scrollRaf
  /\ Len(front.picks) < MaxPicks
  /\ front' = IF ~front.scrolling \/ ~front.container THEN [front EXCEPT !.scrollRaf = FALSE]
              ELSE IF recycle = 0 THEN front
              ELSE ApplySel(NextMedia(front, images.images, 0), recycle)
  /\ UNCHANGED <<config, adapter, call, outbox, images, seen>>

\* the promise of vidEl.play() resolves: playback has started
PlayResolves(t) ==
  /\ front.tiles[t].pending > 0
  /\ front' = [front EXCEPT !.tiles[t] = [@ EXCEPT !.pending = 0, !.playing = TRUE,
                                                   !.handlers = TRUE],
                            !.activeVideoCount = @ + 1]
  /\ UNCHANGED <<config, adapter, call, outbox, images, seen>>

\* the promise of vidEl.play() rejects: autoplay is blocked
PlayRejects(t) ==
  /\ front.tiles[t].pending > 0
  /\ front' = [front EXCEPT !.tiles[t].pending = 0]
  /\ UNCHANGED <<config, adapter, call, outbox, images, seen>>

\* the browser starts a loaded video element that has the autoplay attribute
\* (vidEl.autoplay = !!this.config.videoAutoplay) and whose autoplaying flag
\* is set
AutoplayStarts(t) ==
  /\ front.tiles[t].element /\ ~front.tiles[t].playing /\ front.tiles[t].autoplaying
  /\ front.config.videoAutoplay
  /\ front' = [front EXCEPT !.tiles[t].playing = TRUE, !.tiles[t].autoplaying = FALSE]
  /\ UNCHANGED <<config, adapter, call, outbox, images, seen>>

\* a playing video pauses or ends: the element's onpause / onended handler
\* runs if play() has set one
VideoStops(t) ==
  /\ front.tiles[t].playing
  /\ front' = [front EXCEPT !.tiles[t].playing = FALSE, !.tiles[t].autoplaying = FALSE,
                            !.activeVideoCount =
                              IF front.tiles[t].handlers THEN Max(0, @ - 1) ELSE @]
  /\ UNCHANGED <<config, adapter, call, outbox, images, seen>>

\* stop(): the two timers the module holds are cleared, the counter is reset
\* and the root element taken out of the document, which pauses its videos
Stop ==
  /\ front.started /\ ~front.stopped
  /\ front' = [front EXCEPT !.rotation = ClearInterval(@, front.rotationTimer),
                            !.featured = ClearInterval(@, front.featuredTimer),
                            !.root = FALSE, !.container = FALSE, !.stopped = TRUE,
                            !.activeVideoCount = 0,
                            !.tiles = [t \in Tiles |-> [@[t] EXCEPT !.playing = FALSE,
                                                                     !.pending = 0,
                                                                     !.autoplaying = FALSE]]]
  /\ UNCHANGED <<config, adapter, call, outbox, images, seen>>

\* ------------------------------------------------- front end: life cycle
\* the active rotation timers beyond which the module is not started again
MaxTimers == 2

\* start() is called on the module; the register event it sends is not
\* followed here
Start ==
  /\ Cardinality(front.rotation) < MaxTimers
  /\ Len(front.timers) <= NTiles + 1
  /\ front' = start(front)
  /\ images' = NoEvent
  /\ UNCHANGED <<config, adapter, call, outbox, seen>>

\* _ensureRootInline()
ensureRootInline(f) ==
  IF f.root THEN f
  ELSE [buildRootElement(f) EXCEPT
          !.timers = Append(@, [kind |-> "inline", tile |-> 0, usePlaceholders |-> FALSE])]

\* getDom(), "If initial placeholders not yet filled, do it now"
InlineFill(f, list) ==
  IF f.initialFilled THEN f
  ELSE IF f.rotationTimer = 0
    THEN startRotation([fillTilesInitial(f, list) EXCEPT !.initialFilled = TRUE])
  ELSE [fillTilesInitial(f, list) EXCEPT !.initialFilled = TRUE]

\* getDom() while this.images is list
getDom(f, list) ==
  IF f.config.useFullscreenBelow THEN f ELSE InlineFill(ensureRootInline(f), list)

\* MagicMirror asks the started module for its DOM
GetDom ==
  /\ front.started
  /\ Len(front.timers) <= NTiles + 1
  /\ front' = getDom(front, images.images)
  /\ UNCHANGED <<config, adapter, call, outbox, images, seen>>

\* ------------------------------------------------- front end: data event
\* socketNotificationReceived("IMMICH_TILES_DATA", payload):
\* this.images = payload.images, then the cadence is reset, the tiles are
\* filled by timers and the rotation is started
ReceiveData(payload) ==
  /\ images' = payload
  /\ seen' = seen \cup {payload.cycle}
  /\ front' = maybeStartScroll(
                recalculateTiles(
                  startRotation(
                    fillTilesInitial([front EXCEPT !.cadenceIndex = 0, !.cadenceSeq = NoSeq,
                                                   !.picks = <<>>],
                                     payload.images)),
                  payload.images))

\* the data event the helper sent first arrives
Receive ==
  /\ outbox # <<>>
  /\ ReceiveData(Head(outbox))
  /\ outbox' = Tail(outbox)
  /\ UNCHANGED <<config, adapter, call>>

\* the configurations of the front end under study
FrontConfigs ==
  { DefaultFrontConfig,
    FrontConfig(TRUE, TRUE, 2, RatioString(<<"2", ":", "1">>)),
    FrontConfig(TRUE, TRUE, 0, RatioString(<<" ", "1", ":", "2">>)),
    FrontConfig(TRUE, FALSE, 1, RatioNumber(2)),
    FrontConfig(FALSE, TRUE, 1, RatioString(<<"4", ":", "1">>)),
    FrontConfig(TRUE, TRUE, 1, RatioString(<<"1", ":", "0">>)),
    FrontConfig(TRUE, TRUE, 1, RatioNumber(0)) }

\* lists the helper sends, mapped with the default extension sets: media of
\* both kinds, images only, and none
FrontLists ==
  { MapTiles(<<Photo("p1"), Clip("v1"), Photo("p2"), Clip("v2")>>, TRUE, ModuleConfig(<<>>, 2, 3, TRUE)),
    MapTiles(<<Clip("v3"), Photo("p3")>>, TRUE, ModuleConfig(<<>>, 2, 3, TRUE)),
    MapTiles(<<Photo("p1")>>, TRUE, ModuleConfig(<<>>, 2, 3, TRUE)),
    <<>> }

\* the front end on its own: it starts with one of the configurations
InitFront ==
  /\ config = NoConfig
  /\ http = NoHttp
  /\ apiLevel = NewestLevel
  /\ videoProxySetup = FALSE
  /\ routes = <<>>
  /\ forwarded = NoForward
  /\ call = [p \in Calls |-> Idle]
  /\ outbox = <<>>
  /\ images = NoEvent
  /\ seen = {}
  /\ front \in {FrontStart(cfg) : cfg \in FrontConfigs}

\* an IMMICH_TILES_DATA event with the list arrives; the timers of at most
\* two fills are outstanding
Notify(list) ==
  /\ Len(front.timers) <= NTiles
  /\ ReceiveData([cycle |-> 1, source |-> "immich", images |-> list])
  /\ UNCHANGED <<config, adapter, call, outbox>>

\* ------------------------------------------------------- specifications
\* the continuation of call p when the reply to its request arrives
Resume(p) ==
  \/ \E r \in VersionReplies : ProbeReply(p, r)
  \/ \E r \in VersionReplies : WalkReply(p, r)
  \/ \E r \in RepliesTo(call[p].path, PlainShapes) : MemoryReply(p, r)
  \/ \E r \in RepliesTo(call[p].path, PlainShapes) : FindAlbumIdsReply(p, r)
  \/ \E r \in RepliesTo(call[p].path, PlainShapes) : ListAlbumsReply(p, r)
  \/ \E r \in RepliesTo(call[p].path, PlainShapes) : AlbumInfoReply(p, r)
  \/ \E r \in RepliesTo(call[p].path, SearchShapes) : SearchReply(p, r)
  \/ \E r \in RepliesTo(call[p].path, PlainShapes) : RandomReply(p, r)
  \/ \E r \in RepliesTo(call[p].path, PlainShapes) : AnniversaryReply(p, r)

\* the helper serving overlapping REGISTER events, and the front end
Next ==
  \/ \E p \in Calls, mod \in RegisterConfigs : Register(p, mod)
  \/ \E p \in Calls, r \in VersionReplies : ProbeReply(p, r)
  \/ \E p \in Calls, r \in VersionReplies : WalkReply(p, r)
  \/ \E p \in Calls : \E r \in RepliesTo(call[p].path, PlainShapes) : MemoryReply(p, r)
  \/ \E p \in Calls : \E r \in RepliesTo(call[p].path, SearchShapes) : SearchReply(p, r)
  \/ Receive

Spec == Init /\ [][Next]_vars

\* the reply to the request call p awaits arrives
Answer(p) ==
  \/ \E r \in VersionReplies : ProbeReply(p, r)
  \/ \E r \in VersionReplies : WalkReply(p, r)
  \/ \E r \in RepliesTo(call[p].path, PlainShapes) : MemoryReply(p, r)
  \/ \E r \in RepliesTo(call[p].path, SearchShapes) : SearchReply(p, r)

\* every remote request eventually completes or times out
FairSpec == Spec /\ \A p \in Calls : WF_vars(Answer(p))

\* one load cycle on its own, in every mode
NextModes ==
  \/ \E mod \in ModeConfigs : Register(1, mod)
  \/ Resume(1)
  \/ Receive

SpecModes == Init /\ [][NextModes]_vars

\* the adapter alone: init called directly, forced or not
NextInit ==
  \/ \E p \in Calls, mod \in RegisterConfigs, force \in BOOLEAN : InitCall(p, mod, force)
  \/ \E p \in Calls, r \in VersionReplies : ProbeReply(p, r)
  \/ \E p \in Calls, r \in VersionReplies : WalkReply(p, r)

SpecInit == Init /\ [][NextInit]_vars

\* the adapter re-initialised as the helper does it, with force set, while
\* requests pass through its proxy routes
NextProxy ==
  \/ \E p \in Calls, mod \in RegisterConfigs : InitCall(p, mod, TRUE)
  \/ \E p \in Calls, r \in VersionReplies : ProbeReply(p, r)
  \/ \E p \in Calls, r \in VersionReplies : WalkReply(p, r)
  \/ \E path \in {IMMICH_PROXY_URL, IMMICH_VIDEO_PROXY_URL} : ProxyRequest(path, "a1")

SpecProxy == Init /\ [][NextProxy]_vars

\* the front end alone: data events, tile timers and video elements
NextFront ==
  \/ \E list \in FrontLists : Notify(list)
  \/ FillTile
  \/ FeaturedTimeout
  \/ \E t \in Tiles, now \in TickTimes : Rotate(t, now)
  \/ \E t \in Tiles : PlayResolves(t)
  \/ \E t \in Tiles : PlayRejects(t)
  \/ \E t \in Tiles : AutoplayStarts(t)
  \/ \E t \in Tiles : VideoStops(t)
  \/ Stop

SpecFront == InitFront /\ [][NextFront]_vars

\* the configurations of the front end whose life cycle is followed: the
\* defaults, an inline module that rotates its tiles in turn, a scrolling
\* one and one without reshuffle of the featured tiles
LifeConfigs ==
  { DefaultFrontConfig,
    [DefaultFrontConfig EXCEPT !.useFullscreenBelow = FALSE, !.randomizeTiles = FALSE],
    [DefaultFrontConfig EXCEPT !.enableScrolling = TRUE],
    [DefaultFrontConfig EXCEPT !.useFullscreenBelow = FALSE, !.enableScrolling = TRUE,
                               !.featuredShuffleMinutes = 0] }

\* lists of images the helper sends
LifeLists ==
  { MapTiles(<<Photo("p1"), Photo("p2")>>, TRUE, ModuleConfig(<<>>, 2, 3, TRUE)), <<>> }

\* the front end from its construction on
InitLife ==
  /\ config = NoConfig
  /\ http = NoHttp
  /\ apiLevel = NewestLevel
  /\ videoProxySetup = FALSE
  /\ routes = <<>>
  /\ forwarded = NoForward
  /\ call = [p \in Calls |-> Idle]
  /\ outbox = <<>>
  /\ images = NoEvent
  /\ seen = {}
  /\ front \in {Constructed(cfg) : cfg \in LifeConfigs}

\* a data event reaches the started module
NotifyStarted(list) == front.started /\ Notify(list)

\* the life cycle of the front end: start, getDom, data events, its timers
\* and animation frames, stop
NextLife ==
  \/ Start
  \/ GetDom
  \/ \E list \in LifeLists : NotifyStarted(list)
  \/ InlineTimeout
  \/ FillTile
  \/ FeaturedTimeout
  \/ \E t \in Tiles, now \in TickTimes : Rotate(t, now)
  \/ \E recycle \in 0..NTiles : ScrollStep(recycle)
  \/ Stop

SpecLife == InitLife /\ [][NextLife]_vars

\* the tiles whose video is playing
Playing == {t \in Tiles : front.tiles[t].playing}

\* ------------------------------------------------------------ properties
\* the data events that exist: sent and not yet received, or shown
Events == Range(outbox) \cup {images}

Negotiating == {p \in Calls : call[p].pc \in {"probe", "walk"}}

ImageRoutes == {k \in DOMAIN routes : routes[k].path = IMMICH_PROXY_URL}
VideoRoutes == {k \in DOMAIN routes : routes[k].path = IMMICH_VIDEO_PROXY_URL}

\* C1: every IMMICH_TILES_REGISTER received is answered by exactly one
\* IMMICH_TILES_DATA: the cycle never sends a second one, and as long as every
\* request is answered or times out it ends having sent one, whether it
\* delivered assets, an empty list or the placeholders.
C1_ExactlyOneData ==
  /\ [](\A p \in Calls : call[p].ndata <= 1)
  /\ \A p \in Calls : (call[p].pc # "none") ~> (call[p].pc = "done" /\ call[p].ndata = 1)

\* two overlapping cycles have ended, one after a failed negotiation and one
\* with a list from the remote service
C1_Witness ==
  \E p, q \in Calls :
    /\ call[p].pc = "done" /\ call[p].init = "rejected" /\ call[p].ndata = 1
    /\ call[q].pc = "done" /\ call[q].init = "resolved" /\ call[q].ndata = 1
    /\ call[q].raw.t = "list"

IsPlaceholderList(list) ==
  /\ Len(list) >= 12
  /\ \A k \in DOMAIN list : list[k].src = PlaceholderSrc

\* C2: a cycle whose init obtained no version has ended with exactly one data
\* event, and that event is no list from the remote service but at least 12
\* records whose src is the placeholder image.
C2_FailedNegotiationSendsPlaceholders ==
  \A p \in Calls :
    call[p].init = "rejected" =>
      /\ call[p].pc = "done" /\ call[p].ndata = 1 /\ call[p].raw = NoRaw
      /\ \A e \in Events : e.cycle = p => e.source = "placeholder" /\ IsPlaceholderList(e.images)

\* the placeholders of a failed negotiation are in flight, their number being
\* the floor of 12
C2_Witness ==
  \E k \in DOMAIN outbox :
    /\ call[outbox[k].cycle].init = "rejected"
    /\ outbox[k].source = "placeholder"
    /\ Len(outbox[k].images) = 12

\* C3: after any number of init calls each proxy route is registered exactly
\* once on the express app.
C3_RoutesRegisteredOnce ==
  /\ Cardinality(ImageRoutes) <= 1
  /\ Cardinality(VideoRoutes) <= 1
  /\ videoProxySetup => Cardinality(ImageRoutes) = 1 /\ Cardinality(VideoRoutes) = 1

\* the level the claim assigns to a version
LevelOfVersion(v) ==
  IF v.major = 1 /\ v.minor < 106 THEN "v1_94"
  ELSE IF v.major = 1 /\ v.minor >= 106 /\ v.minor < 118 THEN "v1_106"
  ELSE NewestLevel

\* C4: the level init resolves to is a function of the parsed version alone:
\* v1_94 below 1.106, v1_106 from 1.106 up to 1.118, the newest level
\* otherwise.
C4_LevelIsFunctionOfVersion ==
  \A p \in Calls :
    (call[p].init = "resolved" /\ call[p].version # NoVersion) =>
      call[p].level = LevelOfVersion(call[p].version)

\* C5: once the front end has received the result of a registration, its
\* media list is never replaced by the result of an earlier registration.
C5_StaleResultDiscarded ==
  [][images' # images => \A q \in seen : images'.cycle >= q]_vars

\* C6: negotiation is serialised: at most one negotiation is in progress on
\* the adapter at any time.
C6_OneNegotiationInFlight == Cardinality(Negotiating) <= 1

\* C7: one init call probes at most the levels of the chain from its starting
\* level down to the oldest, and no level twice.
C7_WalkBoundedByChain ==
  \A p \in Calls :
    call[p].probes # <<>> =>
      /\ Len(call[p].probes) <= Len(ChainFrom(call[p].probes[1]))
      /\ NoDup(call[p].probes)

\* C8: an init call made while a client exists and force is not set returns
\* at once: no request is issued, no route registered, and the client, the
\* level and the flag stay as they are.
C8_UnforcedInitIsSkipped ==
  [][\A p \in Calls :
       (call[p].pc = "none" /\ call'[p].pc # "none" /\ http # NoHttp /\ ~call'[p].force) =>
         /\ call'[p].pc = "done" /\ call'[p].probes = <<>> /\ call'[p].path = ""
         /\ UNCHANGED <<http, apiLevel, videoProxySetup, routes, outbox>>]_vars

\* an unforced init call has returned without negotiating, after an earlier
\* call built the client
C8_Witness ==
  \E p \in Calls :
    /\ call[p].pc = "done" /\ ~call[p].force /\ call[p].init = "skipped"
    /\ http # NoHttp

\* C9: every fetch operation resolves with a list whatever the remote
\* service answers, so only a failed init makes a load cycle reject and fall
\* back to the placeholders.
C9_FetchResultIsList ==
  /\ \A p \in Calls : call[p].raw.t \in {"none", "list"}
  /\ \A e \in Events :
       (e.source = "placeholder" /\ HasImmich(call[e.cycle].mod)) =>
         call[e.cycle].init = "rejected"

\* the ids of the assets of a list
Ids(list) == {list[k].id : k \in DOMAIN list}

\* the ids the successful sub-requests of an ended cycle answered with
OkIds(st) ==
  LET cfg == Cfg(st)
  IN CASE cfg.mode = "memory" ->
            UNION {Ids(Concat([g \in DOMAIN MemoryLaneBody(i) |-> MemoryLaneBody(i)[g].assets])) :
                   i \in st.ok}
       [] cfg.mode = "album" ->
            UNION {Ids(AlbumInfoBody(st.albumIds[i + 1]).assets) : i \in st.ok}
       [] cfg.mode = "anniversary" ->
            UNION {Ids(AnniversaryItems(cfg.anniversaryStartYear + i)) : i \in st.ok}
       [] OTHER -> {}

\* the number of sub-requests the mode's loop has to issue
LoopRequests(st) ==
  LET cfg == Cfg(st)
  IN CASE cfg.mode = "memory" -> cfg.numDaysToInclude
       [] cfg.mode = "album" -> Len(st.albumIds)
       [] cfg.mode = "anniversary" ->
            Max(0, cfg.anniversaryEndYear - cfg.anniversaryStartYear + 1)
       [] OTHER -> 0

\* C10: in memory, album and anniversary mode the loop issues every one of
\* its sub-requests whatever fails (one per day, one per album id after the
\* name lookup if any, one per year), a failed sub-request adds nothing, and
\* the assets of every successful sub-request are in the result.
C10_FailedSubRequestIsSkipped ==
  \A p \in Calls :
    (/\ call[p].pc = "done" /\ call[p].init = "resolved"
     /\ Cfg(call[p]).mode \in {"memory", "album", "anniversary"}) =>
      /\ call[p].nsub = LoopRequests(call[p])
      /\ call[p].raw.t = "list"
      /\ Ids(call[p].raw.v) \ {BareObject.id} = OkIds(call[p])

\* a memory cycle has ended whose first day failed and whose second day
\* succeeded
C10_Witness ==
  \E p \in Calls :
    /\ call[p].pc = "done" /\ Cfg(call[p]).mode = "memory"
    /\ call[p].nsub = 2 /\ call[p].ok = {1}
    /\ call[p].raw.v # <<>>

\* the assets of the groups of one day's memory reply, in the order of the groups
DayAssets(i) == Concat([g \in DOMAIN MemoryLaneBody(i) |-> MemoryLaneBody(i)[g].assets])

\* the days' assets in the order the days were requested, a failed day adding
\* nothing
DaysInRequestOrder(st) ==
  Concat([d \in 1..Cfg(st).numDaysToInclude |-> IF (d - 1) \in st.ok THEN DayAssets(d - 1) ELSE <<>>])

\* C11: the result of getMemoryLaneAssets is the assets of the days in the
\* order the days were requested, today's first, and within one day in the
\* order of the groups of the reply.
C11_MemoryLaneInDayOrder ==
  \A p \in Calls :
    (/\ call[p].pc = "done" /\ call[p].init = "resolved"
     /\ Cfg(call[p]).mode = "memory" /\ call[p].raw.t = "list") =>
      call[p].raw.v = DaysInRequestOrder(call[p])

\* the assets of the years whose request succeeded, in year order
YearsInOrder(st) ==
  Concat([k \in 1..LoopRequests(st) |->
            IF (k - 1) \in st.ok THEN AnniversaryItems(Cfg(st).anniversaryStartYear + k - 1)
            ELSE <<>>])

\* the back-date's (month, day) sorts after the forward-date's
WindowCrossesYear(st) ==
  LET back == NormalizeDate(st.today.year, st.today.month,
                            st.today.day - Cfg(st).anniversaryDatesBack)
      forward == NormalizeDate(st.today.year, st.today.month,
                               st.today.day + Cfg(st).anniversaryDatesForward)
  IN back.month > forward.month \/ (back.month = forward.month /\ back.day > forward.day)

\* C12: anniversarySearchAssets sends one request per year from startYear to
\* endYear in ascending order, its result is the years' results in year
\* order, and the end of the window of year Y is in year Y + 1 exactly when
\* the back-date's (month, day) sorts after the forward-date's, in Y otherwise.
C12_AnniversaryWindows ==
  \A p \in Calls :
    LET st == call[p]
    IN (st.init = "resolved" /\ Cfg(st).mode = "anniversary") =>
         /\ Len(st.bodies) <= LoopRequests(st)
         /\ \A k \in DOMAIN st.bodies :
              /\ st.bodies[k].year = Cfg(st).anniversaryStartYear + k - 1
              /\ st.bodies[k].takenBefore.year =
                   (IF WindowCrossesYear(st) THEN st.bodies[k].year + 1 ELSE st.bodies[k].year)
         /\ st.pc = "done" =>
              /\ Len(st.bodies) = LoopRequests(st)
              /\ st.raw.t = "list"
              /\ SelectSeq(st.raw.v, LAMBDA a : a # BareObject) = YearsInOrder(st)

\* the cycle is in album mode with album names and no album id configured,
\* the album list has arrived and none of the names is in it
NoNameMatched(st) ==
  /\ st.init = "resolved" /\ Cfg(st).mode = "album"
  /\ Cfg(st).albumName # <<>> /\ Cfg(st).albumId = <<>>
  /\ st.reqs # <<>> /\ st.pc # "findAlbumIds"
  /\ \A k \in DOMAIN Cfg(st).albumName : ~AlbumMapHas(st.albumMap, Cfg(st).albumName[k])

\* C13: in album mode with album names, no album id and none of the names in
\* the remote album list, the cycle does not reject, requests no album detail
\* and sends a data event whose list is empty.
C13_NoAlbumMatchedGivesEmptyList ==
  \A p \in Calls :
    NoNameMatched(call[p]) =>
      /\ call[p].pc = "done" /\ call[p].ndata = 1
      /\ "albumInfo" \notin Range(call[p].reqs)
      /\ call[p].raw = List(<<>>)
      /\ \A e \in Events : e.cycle = p => e.source = "immich" /\ e.images = <<>>

\* the album list arrived with albums in it, none of them named as configured,
\* and the cycle's data event is in flight
C13_Witness ==
  \E p \in Calls :
    /\ NoNameMatched(call[p]) /\ call[p].albumMap # <<>>
    /\ \E k \in DOMAIN outbox : outbox[k].cycle = p

\* C14: whenever album mode ends without any album id, no name having
\* matched included, the album list was requested for the listing of the
\* available albums, and the cycle ended with a list, not with a rejection.
C14_ListingWheneverNoAlbumId ==
  \A p \in Calls :
    (/\ call[p].pc = "done" /\ call[p].init = "resolved"
     /\ Cfg(call[p]).mode = "album" /\ call[p].albumIds = <<>>) =>
      /\ "listAlbums" \in Range(call[p].reqs)
      /\ call[p].raw.t = "list"

\* the extension of a name or path: the text after its last '.', in lower
\* case; <<>> stands for a name without '.'
ExtensionOf(name) ==
  IF LastIndexOf(name, ".") = 0 THEN <<>>
  ELSE toLowerCase(SubSeq(name, LastIndexOf(name, ".") + 1, Len(name)))

\* the rule of the filter for an asset whose type hint reads hint
FilterRule(img, hint, mod) ==
  LET name == AssetName(img)
      hasExt == LastIndexOf(name, ".") > 0
      imageSet == ExtensionSet(mod.validImageFileExtensions)
      videoSet == ExtensionSet(mod.validVideoFileExtensions)
  IN \/ hasExt /\ ExtensionOf(name) \in imageSet
     \/ includes(hint, IMAGE)
     \/ mod.enableVideos /\ ((hasExt /\ ExtensionOf(name) \in videoSet) \/ includes(hint, VIDEO))

\* the raw asset has a record in a data event of cycle p
IsDelivered(p, img) ==
  \E e \in Events :
    /\ e.cycle = p /\ e.source = "immich"
    /\ \E k \in DOMAIN e.images : e.images[k].src \in {getImageLink(img.id), getVideoLink(img.id)}

\* the cycle has ended with a list from the remote service
Delivered(p) ==
  call[p].pc = "done" /\ call[p].init = "resolved" /\ call[p].raw.t = "list"

\* C15 as stated: the type hint is searched for 'image' and 'video' as the
\* remote service wrote it.
C15_FilterRuleLiteralHint ==
  \A p \in Calls :
    Delivered(p) =>
      \A k \in DOMAIN call[p].raw.v :
        IsDelivered(p, call[p].raw.v[k]) <=>
          FilterRule(call[p].raw.v[k], Or(call[p].raw.v[k].type, <<>>), call[p].mod)

\* C15: a raw asset is delivered exactly when its extension (the text after
\* the last '.', in lower case) is in the image-extension set or its type hint
\* in lower case contains 'image', or videos are enabled and its extension is
\* in the video-extension set or its type hint in lower case contains 'video';
\* without a '.' only the type hint counts.
C15_FilterRule ==
  \A p \in Calls :
    Delivered(p) =>
      \A k \in DOMAIN call[p].raw.v :
        IsDelivered(p, call[p].raw.v[k]) <=>
          FilterRule(call[p].raw.v[k], toLowerCase(Or(call[p].raw.v[k].type, <<>>)), call[p].mod)

\* a search cycle with videos disabled has delivered the asset without '.'
\* whose type hint is IMAGE and dropped the one without '.' and without hint
C15_Witness ==
  \E p \in Calls :
    /\ Delivered(p) /\ Cfg(call[p]).mode = "search" /\ ~call[p].mod.enableVideos
    /\ IsDelivered(p, Typed("s4")) /\ ~IsDelivered(p, NoExt("s3"))
    /\ IsDelivered(p, Scan("s1"))

\* a and b hold the same records the same number of times
IsPermutation(a, b) ==
  /\ Len(a) = Len(b)
  /\ \A x \in Range(a) \cup Range(b) :
       Cardinality({i \in DOMAIN a : a[i] = x}) = Cardinality({i \in DOMAIN b : b[i] = x})

\* the records of the kept assets of the cycle, in retrieval order
MappedRecords(st) == MapTiles(st.raw.v, st.mod.enableVideos, st.mod)

\* C16: whatever sortImagesBy is, the delivered list is a permutation of the
\* records of the kept assets, the sort step itself loses and adds nothing
\* (none keeps the retrieval order), and with sortImagesDescending the
\* delivered list is the exact reverse of what the sort step produced.
C16_SortPermutesAndReverses ==
  \A p \in Calls :
    Delivered(p) =>
      /\ IsPermutation(call[p].sorted, MappedRecords(call[p]))
      /\ Cfg(call[p]).sortImagesBy = "none" => call[p].sorted = MappedRecords(call[p])
      /\ \A e \in Events :
           e.cycle = p =>
             /\ IsPermutation(e.images, MappedRecords(call[p]))
             /\ e.images = (IF Cfg(call[p]).sortImagesDescending
                              THEN Reverse(call[p].sorted) ELSE call[p].sorted)

\* a random-mode cycle sorted by random, descending, has delivered the reverse
\* of a shuffled order that differs from the retrieval order
C16_Witness ==
  \E p \in Calls : \E e \in Events :
    /\ Delivered(p) /\ e.cycle = p
    /\ Cfg(call[p]).sortImagesBy = "random" /\ Cfg(call[p]).sortImagesDescending
    /\ Len(e.images) >= 3
    /\ call[p].sorted # MappedRecords(call[p])
    /\ e.images = Reverse(call[p].sorted) /\ e.images # call[p].sorted

\* C17: every record delivered from the remote service is a video whose src is
\* the video prefix followed by the id of one of the cycle's assets and whose
\* posterSrc is the image prefix followed by the same id, or an image whose
\* src is the image prefix followed by the asset id and which has no posterSrc.
C17_RecordLinks ==
  \A e \in Events :
    e.source = "immich" =>
      \A k \in DOMAIN e.images :
        LET t == e.images[k]
        IN \E a \in Range(call[e.cycle].raw.v) :
             \/ /\ t.kind = "video"
                /\ t.src = IMMICH_VIDEO_PROXY_URL \o a.id
                /\ t.posterSrc = IMMICH_PROXY_URL \o a.id
             \/ /\ t.kind = "image"
                /\ t.src = IMMICH_PROXY_URL \o a.id
                /\ t.posterSrc = ""

\* a data event from the remote service holds a video record and an image
\* record
C17_Witness ==
  \E e \in Events :
    /\ e.source = "immich"
    /\ \E k \in DOMAIN e.images : e.images[k].kind = "video" /\ e.images[k].posterSrc # ""
    /\ \E k \in DOMAIN e.images : e.images[k].kind = "image"

\* the cycle of a REGISTER without Immich configurations has sent nothing to
\* the remote service and has been answered with n placeholder records
AnsweredWithPlaceholders(p, n) ==
  /\ call[p].pc = "done" /\ call[p].ndata = 1
  /\ call[p].init = "none" /\ call[p].reqs = <<>> /\ call[p].raw = NoRaw
  /\ \A e \in Events :
       e.cycle = p =>
         /\ e.source = "placeholder" /\ Len(e.images) = n
         /\ \A k \in DOMAIN e.images : e.images[k].src = PlaceholderSrc

\* C18 as stated: the number of placeholders is max(12, tileRows * tileCols * 3).
C18_PlaceholdersOfGridAsWritten ==
  \A p \in Calls :
    (call[p].pc # "none" /\ ~HasImmich(call[p].mod)) =>
      AnsweredWithPlaceholders(p, Max(12, call[p].mod.tileRows * call[p].mod.tileCols * 3))

\* C18: a REGISTER without Immich configurations starts no negotiation, sends
\* no request and is answered with max(12, rows * cols * 3) placeholders,
\* where rows is tileRows, or 2 when that is 0 or not set, and cols is
\* tileCols, or 3 when that is 0 or not set.
C18_PlaceholdersWithoutImmich ==
  \A p \in Calls :
    (call[p].pc # "none" /\ ~HasImmich(call[p].mod)) =>
      LET rows == IF call[p].mod.tileRows = 0 THEN 2 ELSE call[p].mod.tileRows
          cols == IF call[p].mod.tileCols = 0 THEN 3 ELSE call[p].mod.tileCols
      IN /\ AnsweredWithPlaceholders(p, Max(12, rows * cols * 3))
         /\ http = NoHttp /\ routes = <<>>

\* a REGISTER without Immich configurations and with tileRows 0, tileCols 4
\* has been answered with 24 placeholders
C18_Witness ==
  \E p \in Calls :
    /\ ~HasImmich(call[p].mod) /\ call[p].pc = "done"
    /\ call[p].mod.tileRows = 0 /\ call[p].mod.tileCols = 4
    /\ \E e \in Events : e.cycle = p /\ e.source = "placeholder" /\ Len(e.images) = 24

\* no more videos are playing than videoMaxConcurrent (1 when it is unset)
PlayingWithinLimit == Cardinality(Playing) <= MaxConcurrent(front.config)

\* the counter of active videos is the number of playing videos
CounterIsPlaying == front.activeVideoCount = Cardinality(Playing)

\* C19: at every moment at most videoMaxConcurrent tiles have a playing
\* video, and the counter of active videos equals the number of videos that
\* are playing
C19_VideoConcurrency == PlayingWithinLimit /\ CounterIsPlaying

\* the ratio as it is written in the configuration: "a:b" is a images to b
\* videos, a number n is n images to one video
RatioAsWritten(r) ==
  IF r.t = "number" THEN [image |-> r.n, video |-> 1]
  ELSE LET parts == split(r.s, ":")
       IN [image |-> ParseInt(trim(parts[1]), 0), video |-> ParseInt(trim(parts[2]), 0)]

\* the kind at position k of the repeating pattern of w.image images followed
\* by w.video videos
KindAt(w, k) == IF (k - 1) % (w.image + w.video) < w.image THEN "image" ELSE "video"

\* srcs walks pool round-robin: each is a member, and each next one is the
\* cyclic successor of the one before
RoundRobin(srcs, pool) ==
  /\ \A k \in 1..Len(srcs) : \E i \in 1..Len(pool) : pool[i].src = srcs[k].src
  /\ \A k \in 1..(Len(srcs) - 1) :
       \E i \in 1..Len(pool) : /\ pool[i].src = srcs[k].src
                               /\ pool[(i % Len(pool)) + 1].src = srcs[k + 1].src

\* the selections since the last data event follow the pattern of the
\* weights w, each pool walked round-robin
CadenceFollows(w) ==
  LET list == images.images
  IN (/\ front.config.enableVideos
      /\ ImagePool(list) # <<>> /\ VideoPool(list) # <<>>
      /\ w.image + w.video > 0)
     => /\ \A k \in 1..Len(front.picks) : front.picks[k].kind = KindAt(w, k)
        /\ RoundRobin(SelectSeq(front.picks, LAMBDA m : m.kind = "image"), ImagePool(list))
        /\ RoundRobin(SelectSeq(front.picks, LAMBDA m : m.kind = "video"), VideoPool(list))

\* C20: with videos enabled and both pools non-empty, the media selected
\* since the last data event follow the repeating pattern of imageVideoRatio
\* from its first position, each pool walked round-robin
C20_CadencePattern == CadenceFollows(RatioAsWritten(front.config.imageVideoRatio))

\* C21: every negotiation begins its version probe at the newest level,
\* also a forced one that follows a negotiation which left an older level.
C21_ProbeStartsAtNewest ==
  \A p \in Calls : call[p].probes # <<>> => call[p].probes[1] = NewestLevel

\* C22: an init call that has rejected has requested the version endpoint of
\* every level from its starting level down to the oldest; a probe that
\* failed or was answered 5xx did not keep the older levels from being probed.
C22_RejectsAfterWholeChain ==
  \A p \in Calls :
    call[p].init = "rejected" =>
      Range(ChainFrom(call[p].probes[1])) \subseteq Range(call[p].probes)

\* the levels that completed successful negotiations have produced
ResolvedLevels == {call[p].level : p \in {q \in Calls : call[q].init = "resolved"}}

\* C23: a request passing through a proxy route is rewritten with the path
\* template of a level that a completed successful negotiation produced,
\* never with that of an intermediate level of a walk in progress or of the
\* level a failed negotiation left behind.
C23_RewriteUsesResolvedLevel ==
  [][forwarded' # forwarded =>
       \E level \in ResolvedLevels :
         forwarded'.template = pathRewrite(forwarded'.path, level)]_vars

\* the init call that started last
LastInit == CHOOSE p \in Calls : call[p].pc # "none" /\ \A q \in Calls : call[q].pc # "none" => q <= p

\* the latest init call has resolved and no negotiation is in progress
LastInitResolved ==
  /\ \E p \in Calls : call[p].pc # "none"
  /\ Negotiating = {}
  /\ call[LastInit].init = "resolved"

\* C24: after a successful forced re-initialisation a request through either
\* proxy route is forwarded to the base URL, with the credential and the
\* timeout, of the configuration given to that latest init, which are those
\* of the API client.
C24_ProxyFollowsLatestInit ==
  [][(forwarded' # forwarded /\ LastInitResolved) =>
       /\ forwarded'.target = Cfg(call[LastInit]).url
       /\ forwarded'.target \o apiBaseUrl = http.baseURL
       /\ forwarded'.apiKey = Cfg(call[LastInit]).apiKey /\ forwarded'.apiKey = http.apiKey
       /\ forwarded'.proxyTimeout = http.timeout]_vars

\* the requests of a call that have been issued and not yet answered: its
\* version probe, its single list or search request, and the sub-requests of
\* its loop beyond the iterations that have completed
Outstanding(st) ==
  (IF st.pc \in {"probe", "walk"} THEN 1 ELSE 0)
    + (IF st.pc \in {"findAlbumIds", "listAlbums", "search", "randomSearch"} THEN 1 ELSE 0)
    + (st.nsub - st.i)

\* C25: within one load cycle at most one remote request is outstanding: no
\* fetch request is issued while the version is being probed, a sub-request
\* of a loop is issued only when the one before it has completed, and a
\* cycle that has ended has none left.
C25_OneRequestOutstanding ==
  \A p \in Calls :
    /\ Outstanding(call[p]) \in {0, 1}
    /\ call[p].pc \in {"probe", "walk"} => call[p].nreq = 0
    /\ call[p].nreq - call[p].nsub \in {0, 1}
    /\ call[p].pc \in {"none", "done"} => Outstanding(call[p]) = 0

\* the second sub-request of a loop is outstanding, the first has completed
C25_Witness ==
  \E p \in Calls :
    /\ call[p].pc \in SubRequests /\ call[p].nsub = 2 /\ call[p].i = 1
    /\ Len(call[p].probes) >= 1

\* what the album loop of a call is to return: for each input id in order
\* whose detail request succeeded, the ids of the album's assets, each with
\* the album name of the detail
AlbumsInInputOrder(st) ==
  Concat([k \in 1..Len(st.albumIds) |->
            IF (k - 1) \in st.ok
              THEN LET body == AlbumInfoBody(st.albumIds[k])
                   IN [j \in 1..Len(body.assets) |->
                         [id |-> body.assets[j].id, albumName |-> body.albumName]]
              ELSE <<>>])

\* C26: getAlbumAssetsForAlbumIds returns the albums' assets concatenated in
\* the order of the input ids, and each asset of an album whose detail
\* carries an album name has that name as its albumName.
C26_AlbumsConcatenatedAndStamped ==
  \A p \in Calls :
    (call[p].pc = "done" /\ call[p].albumIds # <<>> /\ call[p].raw.t = "list") =>
      LET want == AlbumsInInputOrder(call[p])
          got == call[p].raw.v
      IN /\ Len(got) = Len(want)
         /\ \A j \in 1..Len(got) :
              /\ got[j].id = want[j].id
              /\ want[j].albumName # "" => got[j].albumName = want[j].albumName

\* the assets of a named album and of an album without a name have been
\* returned, in the order of the two ids
C26_Witness ==
  \E p \in Calls :
    /\ call[p].pc = "done" /\ call[p].albumIds = <<"al1", "al2">> /\ call[p].ok = {0, 1}
    /\ Len(call[p].raw.v) = 3
    /\ call[p].raw.v[1].albumName = "Trip" /\ call[p].raw.v[3].id = "al2x"

\* the names requested from findAlbumIds that the album list received has
ResolvedNames(st) ==
  SelectSeq(Cfg(st).albumName,
            LAMBDA n : \E k \in DOMAIN st.albumMap : st.albumMap[k].albumName = n)

\* findAlbumIds has returned to the call
FoundAlbumIds(st) ==
  \E k \in DOMAIN st.reqs : st.reqs[k] = "findAlbumIds" /\ st.pc # "findAlbumIds"

\* C27: findAlbumIds issues exactly one album list request whatever the
\* number of names, returns the ids of the resolved names in the order the
\* names were requested, omits an unresolved name without failing, and for a
\* name that several albums carry returns the id of the last of them in the
\* listing.
C27_FindAlbumIds ==
  \A p \in Calls :
    FoundAlbumIds(call[p]) =>
      LET st == call[p]
          names == ResolvedNames(st)
      IN /\ Cardinality({k \in DOMAIN st.reqs : st.reqs[k] = "findAlbumIds"}) = 1
         /\ Len(st.albumIds) = Len(names)
         /\ \A j \in 1..Len(names) :
              \E k \in DOMAIN st.albumMap :
                /\ st.albumMap[k].albumName = names[j] /\ st.albumMap[k].id = st.albumIds[j]
                /\ \A m \in DOMAIN st.albumMap : m > k => st.albumMap[m].albumName # names[j]
         /\ st.pc = "done" => st.raw.t = "list"

\* three names were requested: one carried by two albums, one unknown, one
\* listed before the first; two ids came back in the order of the names
C27_Witness ==
  \E p \in Calls :
    /\ FoundAlbumIds(call[p]) /\ Len(Cfg(call[p]).albumName) = 3
    /\ call[p].albumIds = <<"al3", "al2">>

\* the sort keys that order by takenAt
DateKeys == {"created", "modified", "taken"}

\* a <= b on strings, by character code
StrLeq(a, b) == ~StrLess(b, a)

\* the values of one field along a list, an absent value as the empty string
FieldOf(list, key) == [k \in DOMAIN list |-> Or(list[k][key], <<>>)]

NonDecreasing(strs) ==
  \A k \in DOMAIN strs : k < Len(strs) => StrLeq(strs[k], strs[k + 1])

\* C28: with sortImagesDescending false, sortImagesBy name delivers the titles
\* in non-decreasing string order; created, modified and taken deliver the
\* takenAt strings in non-decreasing string order, an absent value counting
\* as the empty string, and the three keys give the same order; none or an
\* unrecognised key keeps the retrieval order.
C28_AscendingSorts ==
  \A p \in Calls : \A e \in Events :
    (Delivered(p) /\ e.cycle = p /\ ~Cfg(call[p]).sortImagesDescending) =>
      LET key == Cfg(call[p]).sortImagesBy
      IN /\ key = "name" => NonDecreasing(FieldOf(e.images, "title"))
         /\ key \in DateKeys =>
              /\ NonDecreasing(FieldOf(e.images, "takenAt"))
              /\ \A other \in DateKeys :
                   e.images = SortStep(MappedRecords(call[p]), other, <<>>)
         /\ key \notin DateKeys \cup {"name", "random"} =>
              e.images = MappedRecords(call[p])

\* dates retrieved out of order, one of them absent, were delivered in
\* ascending order with the absent one first
C28_Witness ==
  \E p \in Calls : \E e \in Events :
    /\ Delivered(p) /\ e.cycle = p /\ ~Cfg(call[p]).sortImagesDescending
    /\ Cfg(call[p]).sortImagesBy = "modified"
    /\ Len(e.images) >= 3 /\ e.images # MappedRecords(call[p])
    /\ e.images[1].takenAt = Null

\* titles retrieved out of order were delivered in ascending order
SortedByName ==
  \E p \in Calls : \E e \in Events :
    /\ Delivered(p) /\ e.cycle = p /\ ~Cfg(call[p]).sortImagesDescending
    /\ Cfg(call[p]).sortImagesBy = "name"
    /\ Len(e.images) >= 3 /\ e.images # MappedRecords(call[p])

\* a list out of date order was delivered under an unrecognised key
KeptUnderUnrecognisedKey ==
  \E p \in Calls : \E e \in Events :
    /\ Delivered(p) /\ e.cycle = p /\ Cfg(call[p]).sortImagesBy = "size"
    /\ Len(e.images) >= 3 /\ ~NonDecreasing(FieldOf(e.images, "takenAt"))

\* calendar dates in order
DateLeq(a, b) ==
  \/ a.year < b.year
  \/ a.year = b.year /\ a.month < b.month
  \/ a.year = b.year /\ a.month = b.month /\ a.day <= b.day

\* C29: for every year anniversarySearchAssets requests, takenAfter carries
\* the calendar date of today minus datesBack projected onto that year,
\* takenBefore carries the calendar date of today plus datesForward projected
\* onto the end year of the window, and takenAfter is not later than
\* takenBefore, whatever the time-zone offset of the host.
C29_WindowDates ==
  \A p \in Calls :
    LET st == call[p]
        back == NormalizeDate(st.today.year, st.today.month,
                              st.today.day - Cfg(st).anniversaryDatesBack)
        forward == NormalizeDate(st.today.year, st.today.month,
                                 st.today.day + Cfg(st).anniversaryDatesForward)
    IN (st.init = "resolved" /\ Cfg(st).mode = "anniversary") =>
         \A k \in DOMAIN st.bodies :
           LET b == st.bodies[k]
               endYear == IF WindowCrossesYear(st) THEN b.year + 1 ELSE b.year
           IN /\ b.takenAfter = Date(b.year, back.month, back.day)
              /\ b.takenBefore = Date(endYear, forward.month, forward.day)
              /\ DateLeq(b.takenAfter, b.takenBefore)

\* the cycle runs random or anniversary mode on a level whose apiUrls entry
\* has no randomSearch
NoRandomSearch(st) ==
  /\ st.init = "resolved" /\ Cfg(st).mode \in {"random", "anniversary"}
  /\ RandomSearchPath(apiLevel) = ""

\* C30: random or anniversary mode run against a resolved level that has no
\* random search endpoint ends the load cycle with a data event that holds an
\* empty list; the cycle does not reject and sends no placeholders.
C30_NoEndpointGivesEmptyList ==
  \A p \in Calls :
    (NoRandomSearch(call[p]) /\ call[p].pc = "done") =>
      /\ call[p].raw.t = "list"
      /\ \E e \in Events : e.cycle = p
      /\ \A e \in Events : e.cycle = p => e.source = "immich" /\ e.images = <<>>

\* C31: after stop() has run, and until the module is started again, no
\* rotation timer, no timer of the featured reshuffle and no animation frame
\* of the scroll loop is active, also when timeouts of a fill were pending
\* when stop() ran.
C31_NoTimerAfterStop ==
  front.stopped => front.rotation = {} /\ front.featured = {} /\ ~front.scrollRaf

\* C32: at every rotation tick the index computed for the tile to replace
\* is an integer in 0..tileCount-1, so that it names a tile of the grid,
\* with randomizeTiles on and with randomizeTiles off.
C32_TickNamesATile == front.tick # "undefined"

\* C37: after any sequence of start, getDom and data events on one module
\* instance at most one rotation interval timer is active.
C37_OneRotationTimer == Cardinality(front.rotation) <= 1

\* the only init call made so far is p, and it has rejected
OnlyCallRejected(p) ==
  call[p].init = "rejected" /\ \A q \in Calls \ {p} : call[q].pc = "none"

\* C33: a negotiation that fails leaves the negotiation state as it was
\* before the attempt: after the first init call on a new adapter has
\* rejected, no HTTP client is kept and the level is the one it was, so that
\* a later init without force negotiates and a later forced init probes the
\* same levels.
C33_FailedNegotiationLeavesNoTrace ==
  \A p \in Calls : OnlyCallRejected(p) => http = NoHttp /\ apiLevel = NewestLevel

\* the list a cycle delivers when it reads nothing but the configuration of
\* its own REGISTER event
OwnLists(st) ==
  LET cfg == Cfg(st)
      tiles == MapTiles(st.raw.v, st.mod.enableVideos, st.mod)
  IN {SortTiles(tiles, cfg.sortImagesBy, cfg.sortImagesDescending, rnd) :
        rnd \in (IF cfg.sortImagesBy = "random" THEN RandomDraws(Len(tiles))
                 ELSE {[k \in 1..Len(tiles) |-> k]})}

\* in this step cycle p sends a fetch request
IssuesFetch(p) == call'[p].nreq > call[p].nreq

\* in this step cycle p delivers a list of the remote service
DeliversList(p) == ~Delivered(p) /\ Delivered(p)'

\* C34: a load cycle uses only the configuration of the REGISTER event that
\* started it, also when another REGISTER arrives while it awaits a reply:
\* its fetch requests are sent through the client built from its own
\* configuration, and the list it delivers is filtered with its own
\* enableVideos flag.
C34_CycleUsesOwnConfig ==
  [][\A p \in Calls :
       /\ IssuesFetch(p) => http' = Client(Cfg(call[p]))
       /\ DeliversList(p) => outbox'[Len(outbox')].images \in OwnLists(call'[p])]_vars

\* C35: when enableVideos is not true, no record a load cycle delivers has
\* kind video, whatever the names and type hints of the assets.
C35_NoVideoWhenDisabled ==
  \A p \in Calls :
    (Delivered(p) /\ ~call[p].mod.enableVideos) =>
      \A e \in Events :
        (e.cycle = p /\ e.source = "immich") =>
          \A k \in DOMAIN e.images : e.images[k].kind # "video"

\* C36: in search, random and anniversary mode the size field of every body
\* sent is the configured querySize (100 when it is unset), also when the
\* query object holds a size field of its own.
C36_SizeIsQuerySize ==
  \A p \in Calls :
    Cfg(call[p]).mode \in {"search", "random", "anniversary"} =>
      \A k \in DOMAIN call[p].sizes : call[p].sizes[k] = SizeOr100(Cfg(call[p]).querySize)

====
